---- MODULE Spec2Model ----
(***************************************************************************)
(* Model of the acad-cmd output-correlation core:                          *)
(*   - com_retry / _is_callee_busy           (autocad_bridge.py)           *)
(*   - AutoCADBridge.wait_for_idle           (autocad_bridge.py)           *)
(*   - OutputStreamManager                   (output_log.py)               *)
(*   - start_logging / stop_logging / get_new_output_since / send_command  *)
(*     / _collect_selection_stream_lite / selection   (server.py)          *)
(* Each component has its own specification over the shared variables:     *)
(*   SpecRetry, SpecWait, SpecLog, SpecSel (and SpecSelLive with fairness). *)
(***************************************************************************)
EXTENDS Integers, Sequences, FiniteSets, TLC

VARIABLES
  \* ---- com_retry (autocad_bridge.py:140-154)
  rPc,        \* "loop" | "returned" | "raised"
  rCalls,     \* number of fn() invocations made so far
  rSleeps,    \* number of time.sleep(delay) calls made so far
  rDelay,     \* local `delay`, in microseconds
  rLast,      \* local `last`: the last exception caught, or NoError
  rOut,       \* what com_retry handed to its caller (value or exception)
  \* ---- the endpoint and the clock
  now,          \* time.time()
  epQuiescent,  \* GetAcadState().IsQuiescent
  epCmdActive,  \* the CMDACTIVE system variable
  \* ---- AutoCADBridge.wait_for_idle (autocad_bridge.py:407-433)
  wPc,        \* "idle" | "polling" | "returned"
  wT0,        \* local t0
  wTimeout,   \* parameter timeout_sec
  wInterval,  \* parameter poll_interval_sec
  wPoll,      \* locals of the last poll: is_quiescent, cmdactive (+ what was read)
  wResult,    \* the WaitResult returned
  \* ---- the file system and the endpoint's logging variables
  files,          \* path -> [exists, data]: the log files
  epLogFileName,  \* the LOGFILENAME system variable ("" when unset)
  epLogFileMode,  \* the LOGFILEMODE system variable
  \* ---- OutputStreamManager (output_log.py:23-29)
  streams,        \* _streams: the registered streams, in insertion order
  default_stream_id,  \* _default_stream_id (NoId for None)
  nextId,         \* the next uuid4 handed out as a stream id
  lastOp,         \* the last tool call and how it ended
  \* ---- the endpoint's command channel (scripts sent with SendCommand)
  epScripts,      \* scripts received and not yet run, oldest first
  epOut,          \* output printed by the endpoint, not yet written to its log
  epImplied,      \* size of the PickFirst (implied) selection set
  \* ---- selection (server.py:1147-1255)
  sPc,            \* "idle" | "wait1" | "collect1" | "decide" | "collect2" | "finish" | "done"
  sArgs,          \* parameters timeout_sec, max_objects (as mo)
  sTemp,          \* temp_stream_id (NoId for None)
  sSent,          \* the scripts selection has dispatched, in order
  sResult,        \* what selection returned or raised
  \* ---- _collect_selection_stream_lite (server.py:555-671)
  cReq,           \* parameter req_id
  cTimeout,       \* parameter timeout_sec
  cT0,            \* local t0
  cCur,           \* local cur
  cBuf,           \* local buf
  cAcc,           \* locals started, items, order
  cTimedOut,      \* local timed_out
  cStream,        \* local stream (its stream_id)
  cSeen,          \* the text handed to _handle_msgs so far, as lines
  \* ---- a function called on its own
  fnArgs,         \* the call: the function's name and its arguments
  fnRet,          \* what the call returned or raised
  \* ---- AutoCADBridge's connection (autocad_bridge.py:164-354)
  conf,           \* the configuration read from the environment variables
  rot,            \* identity -> the running endpoint GetActiveObject gives for it
  bAcad,          \* _acad (NoInst for None)
  bDoc,           \* _doc (NoInst for None)
  bConnected,     \* _connected
  epCalls,        \* the calls the last operation made to the endpoint, in order
  \* ---- _run_lisp_json calls of dict_xrecord_set (server.py:126-150, 1092-1114)
  runOps,         \* per call: where it is, temp_stream_id, and what it returned
  xStore          \* the XRECORD stored under the key in the drawing (NoRec: none)

retryVars == <<rPc, rCalls, rSleeps, rDelay, rLast, rOut>>
envVars   == <<now, epQuiescent, epCmdActive>>
waitVars  == <<wPc, wT0, wTimeout, wInterval, wPoll, wResult>>
fileVars  == <<files, epLogFileName, epLogFileMode>>
logVars   == <<streams, default_stream_id, nextId, lastOp>>
chanVars  == <<epScripts, epOut, epImplied>>
selVars   == <<sPc, sArgs, sTemp, sSent, sResult>>
colVars   == <<cReq, cTimeout, cT0, cCur, cBuf, cAcc, cTimedOut, cStream, cSeen>>
fnVars    == <<fnArgs, fnRet>>
connVars  == <<conf, rot, bAcad, bDoc, bConnected, epCalls>>
runVars   == <<runOps, xStore>>
vars      == <<retryVars, envVars, waitVars, fileVars, logVars, chanVars, selVars, colVars, fnVars,
               connVars, runVars>>

Min(a, b) == IF a <= b THEN a ELSE b
Max(a, b) == IF a >= b THEN a ELSE b

(***************************************************************************)
(* com_retry                                                               *)
(***************************************************************************)
RPC_E_CALL_REJECTED == -2147418111

\* default parameters of com_retry; delays are in microseconds (0.05 s, 0.8 s)
retries    == 15
base_delay == 50000
max_delay  == 800000

\* Results a wrapped call can return.
MaxRetVal == 1
RetVals == 0..MaxRetVal

\* Exceptions a wrapped call can raise.  com: isinstance(err, com_error);
\* hasHr/hr: the hresult attribute (None or an int); argInt/arg0: args[0].
\* -2147467259 is E_FAIL, standing for any hresult other than the rejection.
ErrKinds ==
  { [com |-> TRUE,  hasHr |-> TRUE,  hr |-> RPC_E_CALL_REJECTED, argInt |-> TRUE,  arg0 |-> RPC_E_CALL_REJECTED],
    [com |-> TRUE,  hasHr |-> FALSE, hr |-> 0,                   argInt |-> TRUE,  arg0 |-> RPC_E_CALL_REJECTED],
    [com |-> TRUE,  hasHr |-> TRUE,  hr |-> -2147467259,         argInt |-> TRUE,  arg0 |-> -2147467259],
    [com |-> TRUE,  hasHr |-> FALSE, hr |-> 0,                   argInt |-> TRUE,  arg0 |-> -2147467259],
    [com |-> TRUE,  hasHr |-> FALSE, hr |-> 0,                   argInt |-> FALSE, arg0 |-> 0],
    [com |-> FALSE, hasHr |-> FALSE, hr |-> 0,                   argInt |-> FALSE, arg0 |-> 0],
    [com |-> FALSE, hasHr |-> TRUE,  hr |-> RPC_E_CALL_REJECTED, argInt |-> TRUE,  arg0 |-> RPC_E_CALL_REJECTED] }

\* An exception object: its kind and the attempt that raised it (its identity).
Err(kind, attempt) == [isErr |-> TRUE, kind |-> kind, at |-> attempt]
NoError == [isErr |-> FALSE, kind |-> CHOOSE k \in ErrKinds : ~k.com /\ ~k.hasHr, at |-> 0]

\* a variant that takes every com_error for the busy rejection
is_callee_busy_any_com_error(kind) == kind.com

\* _is_callee_busy(err)
is_callee_busy(kind) ==
  IF kind.com
    THEN IF kind.hasHr
           THEN kind.hr = RPC_E_CALL_REJECTED
           ELSE kind.argInt /\ kind.arg0 = RPC_E_CALL_REJECTED
    ELSE FALSE

\* delay = min(max_delay, delay * 1.6)
next_delay(d) == Min(max_delay, (d * 16) \div 10)

\* a variant that loops without a limit
retry_loop_unbounded(calls) == TRUE

\* `for _ in range(retries)`: another iteration remains
retry_loop_continues(calls) == calls < retries

RetryInit ==
  /\ rPc = "loop"
  /\ rCalls = 0
  /\ rSleeps = 0
  /\ rDelay = base_delay
  /\ rLast = NoError
  /\ rOut = [kind |-> "none", val |-> 0, err |-> NoError]

\* One iteration whose fn() returns v: `return fn()`.
RetryCallReturns(v) ==
  /\ rPc = "loop"
  /\ retry_loop_continues(rCalls)
  /\ rCalls' = rCalls + 1
  /\ rPc' = "returned"
  /\ rOut' = [kind |-> "return", val |-> v, err |-> NoError]
  /\ UNCHANGED <<rSleeps, rDelay, rLast>>

\* One iteration whose fn() raises an exception of kind k.
RetryCallRaises(k) ==
  /\ rPc = "loop"
  /\ retry_loop_continues(rCalls)
  /\ rCalls' = rCalls + 1
  /\ rLast' = Err(k, rCalls + 1)
  /\ IF ~is_callee_busy(k)
       THEN /\ rPc' = "raised"
            /\ rOut' = [kind |-> "raise", val |-> 0, err |-> Err(k, rCalls + 1)]
            /\ UNCHANGED <<rSleeps, rDelay>>
       ELSE /\ rSleeps' = rSleeps + 1
            /\ rDelay' = next_delay(rDelay)
            /\ UNCHANGED <<rPc, rOut>>

\* The loop ran out: `if last: raise last`.
RetryExhausted ==
  /\ rPc = "loop"
  /\ ~retry_loop_continues(rCalls)
  /\ IF rLast.isErr
       THEN /\ rPc' = "raised"
            /\ rOut' = [kind |-> "raise", val |-> 0, err |-> rLast]
       ELSE /\ rPc' = "returned"
            /\ rOut' = [kind |-> "return", val |-> 0, err |-> NoError]
  /\ UNCHANGED <<rCalls, rSleeps, rDelay, rLast>>

(***************************************************************************)
(* The endpoint and the clock                                              *)
(***************************************************************************)
MaxCmdActive == 1
TickStep == 10

EnvInit ==
  /\ now = 0
  /\ epQuiescent \in BOOLEAN
  /\ epCmdActive \in 0..MaxCmdActive

\* The endpoint changes state on its own (a command starts, ends, asks for input).
EndpointChange ==
  /\ \E q \in BOOLEAN, c \in 0..MaxCmdActive :
       /\ <<q, c>> # <<epQuiescent, epCmdActive>>
       /\ epQuiescent' = q
       /\ epCmdActive' = c
  /\ UNCHANGED now

(***************************************************************************)
(* AutoCADBridge.wait_for_idle                                             *)
(***************************************************************************)
\* `cmdactive = 999` when reading CMDACTIVE fails
CMDACTIVE_UNKNOWN == 999

TimeoutSet == {0, 5, 15}
PollSet == {0, TickStep}

NoPoll == [is_quiescent |-> FALSE, cmdactive |-> 0, stateFailed |-> FALSE,
           readFailed |-> FALSE, epQuiescent |-> FALSE, epCmdActive |-> 0, n |-> 0]
NoWaitResult == [completed |-> FALSE, needs_input |-> FALSE, quiescent |-> FALSE, timedOut |-> FALSE]

WaitIdleInit ==
  /\ wPc = "idle"
  /\ wT0 = 0
  /\ wTimeout = 0
  /\ wInterval = 0
  /\ wPoll = NoPoll
  /\ wResult = NoWaitResult

\* a variant that takes one idle signal for idle
is_idle_either(is_quiescent, cmdactive) == is_quiescent \/ cmdactive = 0

\* `if is_quiescent and cmdactive == 0`
is_idle(is_quiescent, cmdactive) == is_quiescent /\ cmdactive = 0

\* a variant that never reports needs_input
needs_input_never(cmdactive) == FALSE

\* `needs_input = cmdactive != 0`
needs_input_of(cmdactive) == cmdactive # 0

\* a variant whose timeout never elapses
timed_out_never(t, t0, timeout) == FALSE

\* `time.time() - t0 >= timeout_sec`
timed_out_at(t, t0, timeout) == t - t0 >= timeout

\* Entry of wait_for_idle: t0 = time.time()
wait_for_idle_enter(timeout, interval) ==
  /\ wPc' = "polling"
  /\ wT0' = now
  /\ wTimeout' = timeout
  /\ wInterval' = interval
  /\ wPoll' = NoPoll
  /\ wResult' = NoWaitResult

\* The caller is done with the WaitResult: the call's locals are gone.
wait_for_idle_leave ==
  /\ wPc' = "idle"
  /\ wT0' = 0
  /\ wTimeout' = 0
  /\ wInterval' = 0
  /\ wPoll' = NoPoll
  /\ wResult' = NoWaitResult

\* a variant that reads a failed CMDACTIVE as no command
wait_cmdactive_zero(readFailed, value) == IF readFailed THEN 0 ELSE value

\* `try: cmdactive = int(self.get_variable("CMDACTIVE")) except Exception: cmdactive = 999`
wait_cmdactive(readFailed, value) == IF readFailed THEN CMDACTIVE_UNKNOWN ELSE value

\* One iteration of the `while True` loop.  stateFailed: GetAcadState raised;
\* readFailed: get_variable("CMDACTIVE") raised.
WaitPoll ==
  /\ wPc = "polling"
  /\ \E stateFailed \in BOOLEAN, readFailed \in BOOLEAN :
       LET is_quiescent == IF stateFailed THEN FALSE ELSE epQuiescent
           cmdactive    == wait_cmdactive(readFailed, epCmdActive)
       IN /\ wPoll' = [is_quiescent |-> is_quiescent, cmdactive |-> cmdactive,
                       stateFailed |-> stateFailed, readFailed |-> readFailed,
                       epQuiescent |-> epQuiescent, epCmdActive |-> epCmdActive,
                       n |-> Min(wPoll.n + 1, 2)]
          /\ IF is_idle(is_quiescent, cmdactive)
               THEN /\ wPc' = "returned"
                    /\ wResult' = [completed |-> TRUE, needs_input |-> FALSE,
                                   quiescent |-> TRUE, timedOut |-> FALSE]
                    /\ UNCHANGED now
               ELSE IF timed_out_at(now, wT0, wTimeout)
                 THEN /\ wPc' = "returned"
                      /\ wResult' = [completed |-> FALSE,
                                     needs_input |-> needs_input_of(cmdactive),
                                     quiescent |-> is_quiescent, timedOut |-> TRUE]
                      /\ UNCHANGED now
                 ELSE \* time.sleep(poll_interval_sec)
                      /\ now' = now + wInterval
                      /\ UNCHANGED <<wPc, wResult>>
  /\ UNCHANGED <<wT0, wTimeout, wInterval>>

\* The clock advances while a polling loop waits for its timeout.
WaitTick ==
  /\ wPc = "polling"
  /\ now - wT0 < wTimeout
  /\ now' = now + TickStep
  /\ UNCHANGED <<epQuiescent, epCmdActive>>

(***************************************************************************)
(* Log files: bytes, text and the endpoint's logging variables             *)
(***************************************************************************)
\* A JSON object printed after the [MCP:JSON] tag.  req: its req_id (NoReq when
\* it has none); ev: its event; i, count, h: the item index, the count and the
\* entity handle it carries; ok: its ok flag.
NoReq == 0
Msg(req, ev, i, count, h, ok) ==
  [req |-> req, ev |-> ev, i |-> i, count |-> count, h |-> h, ok |-> ok]
NoMsg == Msg(NoReq, "none", 0, 0, 0, TRUE)

\* A byte of a log file.  k: "x" an ASCII character, "nl" a newline, "lead" and
\* "trail" the two bytes of one two-byte character; "h" the first part of a
\* tagged line (the [MCP:JSON] tag and the head of object m), "t" the rest of
\* object m; "g" the [MCP:JSON] tag alone, "hd" the head of object m without
\* the tag, "o" the whole text of object m, "v" the text of a JSON value that
\* is not an object, "sp" a blank.
Byte(k) == [k |-> k, m |-> NoMsg]
MsgByte(k, m) == [k |-> k, m |-> m]
NL == Byte("nl")

\* What the endpoint appends in one write: one character or a newline.
Chunks == { <<Byte("x")>>, <<NL>>, <<Byte("lead"), Byte("trail")>> }

\* data.decode(enc, errors="replace"): a complete two-byte character decodes to
\* one character "C", a lone half to the replacement character "?"; every other
\* byte is its own character; never raises.
RECURSIVE decode(_)
decode(data) ==
  IF data = <<>> THEN <<>>
  ELSE IF Len(data) >= 2 /\ data[1].k = "lead" /\ data[2].k = "trail"
    THEN <<Byte("C")>> \o decode(SubSeq(data, 3, Len(data)))
    ELSE IF data[1].k \in {"lead", "trail"}
      THEN <<Byte("?")>> \o decode(Tail(data))
      ELSE <<data[1]>> \o decode(Tail(data))

PathAcad    == "acad.log"      \* the path LOGFILENAME holds at start-up
PathUser    == "user.log"      \* a path a caller passes to start_logging
PathDefault == "default.log"   \* _default_logfile_path()
Paths == {PathAcad, PathUser, PathDefault}

MaxFile == 2
NoFile == [exists |-> FALSE, data |-> <<>>]

FileInit ==
  /\ epLogFileName \in {"", PathAcad}
  /\ epLogFileMode \in {0, 1}
  /\ \E d \in {<<>>, <<Byte("x")>>, <<Byte("x"), NL>>}, e \in BOOLEAN :
       files = [p \in Paths |-> IF p = PathAcad /\ e THEN [exists |-> TRUE, data |-> d]
                                ELSE NoFile]

\* The endpoint appends to the file it logs to (creating it when missing).
FileAppend ==
  /\ epLogFileMode = 1
  /\ epLogFileName # ""
  /\ \E c \in Chunks :
       /\ Len(files[epLogFileName].data) + Len(c) <= MaxFile
       /\ files' = [files EXCEPT ![epLogFileName] =
                      [exists |-> TRUE, data |-> files[epLogFileName].data \o c]]
  /\ UNCHANGED <<epLogFileName, epLogFileMode>>

\* A log file is truncated or rotated: it shrinks to a prefix of its bytes.
FileShrink ==
  /\ \E p \in Paths, n \in 0..MaxFile :
       /\ files[p].exists
       /\ n < Len(files[p].data)
       /\ files' = [files EXCEPT ![p].data = SubSeq(files[p].data, 1, n)]
  /\ UNCHANGED <<epLogFileName, epLogFileMode>>

\* A log file is removed.
FileRemove ==
  /\ \E p \in Paths :
       /\ files[p].exists
       /\ files' = [files EXCEPT ![p] = NoFile]
  /\ UNCHANGED <<epLogFileName, epLogFileMode>>

(***************************************************************************)
(* OutputStreamManager                                                     *)
(***************************************************************************)
NoId == 0
MaxStarts == 2
StreamIds == 1..MaxStarts

\* send_command reads with max_bytes = 65536
SEND_MAX_BYTES == 65536

OutputStream(id, mode, path, cursor, by_server) ==
  [stream_id |-> id, mode |-> mode, logfile_path |-> path, cursor |-> cursor,
   started_by_server |-> by_server]

HasStream(ss, id) == \E i \in 1..Len(ss) : ss[i].stream_id = id
IndexOf(ss, id) == CHOOSE i \in 1..Len(ss) : ss[i].stream_id = id
\* _streams.get(stream_id); only used where the stream is registered
GetStream(ss, id) == ss[IndexOf(ss, id)]

RemoveAt(ss, i) == SubSeq(ss, 1, i - 1) \o SubSeq(ss, i + 1, Len(ss))

\* get_default(): registered stream named by _default_stream_id, if any
HasDefault(ss, d) == d # NoId /\ HasStream(ss, d)

IsLogfileStream(s) == s.mode = "logfile" /\ s.logfile_path # ""

\* start_logfile_stream / start_lastprompt_stream: register and make default
start_stream(ss, s) == ss \o <<s>>

\* a variant that drops the oldest stream when the id is not registered
stop_streams_any(ss, id) ==
  IF ~HasStream(ss, id) THEN (IF ss = <<>> THEN ss ELSE Tail(ss))
  ELSE RemoveAt(ss, IndexOf(ss, id))

\* a variant that keeps the default although its stream is removed
stop_default_keep(ss, d, id) == d

\* stop(): the streams and default left after stop(id); an id that is not
\* registered leaves them as they are
stop_streams(ss, id) ==
  IF ~HasStream(ss, id) THEN ss ELSE RemoveAt(ss, IndexOf(ss, id))
stop_default(ss, d, id) ==
  IF d = id
    THEN IF Len(stop_streams(ss, id)) > 0 THEN stop_streams(ss, id)[1].stream_id ELSE NoId
    ELSE d

ReadResult(text, cursor, truncated, stored, raised) ==
  [text |-> text, new_cursor |-> cursor, truncated |-> truncated,
   stored |-> stored, raised |-> raised]

\* a variant that leaves a cursor beyond the end of the file where it is
clamp_cursor_none(cursor, file_size) == cursor

\* `if cursor > file_size: cursor = file_size`
clamp_cursor(cursor, file_size) == IF cursor > file_size THEN file_size ELSE cursor

\* read_new(stream_id, cursor, max_bytes) -> (text, new_cursor, truncated);
\* stored: s.cursor was set to new_cursor; raised: f.seek() of a negative offset.
read_new(ss, fs, id, cursor, max_bytes) ==
  IF ~HasStream(ss, id) THEN ReadResult(<<>>, cursor, FALSE, FALSE, FALSE)
  ELSE LET s == GetStream(ss, id) IN
    IF ~IsLogfileStream(s) THEN ReadResult(<<>>, cursor, FALSE, FALSE, FALSE)
    ELSE IF ~fs[s.logfile_path].exists THEN ReadResult(<<>>, cursor, FALSE, FALSE, FALSE)
    ELSE LET file_size == Len(fs[s.logfile_path].data)
             cur       == clamp_cursor(cursor, file_size)
             to_read   == Min(max_bytes, file_size - cur)
         IN IF to_read <= 0 THEN ReadResult(<<>>, cur, FALSE, FALSE, FALSE)
            ELSE IF cur < 0 THEN ReadResult(<<>>, cur, FALSE, FALSE, TRUE)
            ELSE LET data       == SubSeq(fs[s.logfile_path].data, cur + 1, cur + to_read)
                     new_cursor == cur + Len(data)
                     truncated  == new_cursor < file_size /\ Len(data) = max_bytes
                     text       == decode(data)
                 IN ReadResult(text, new_cursor, truncated, text # <<>>, FALSE)

\* a variant that never stores the cursor
streams_after_read_none(ss, id, r) == ss

\* The streams after read_new: `if text: s.cursor = new_cursor`.
streams_after_read(ss, id, r) ==
  IF r.stored THEN [ss EXCEPT ![IndexOf(ss, id)].cursor = r.new_cursor] ELSE ss

\* read_tail(stream_id, tail_bytes = 8192)
TAIL_BYTES == 8192
read_tail(ss, fs, id) ==
  IF ~HasStream(ss, id) THEN <<>>
  ELSE LET s == GetStream(ss, id) IN
    IF ~IsLogfileStream(s) \/ ~fs[s.logfile_path].exists THEN <<>>
    ELSE LET size  == Len(fs[s.logfile_path].data)
             start == Max(0, size - TAIL_BYTES)
         IN decode(SubSeq(fs[s.logfile_path].data, start + 1, size))

(***************************************************************************)
(* The logging tools of server.py                                          *)
(***************************************************************************)
\* stopped: the "stopped" entry of stop_logging's result
Op(name, id, r) ==
  [op |-> name, stream_id |-> id, raised |-> r.raised,
   stopped |-> name = "stop_logging" /\ r.stored]
NoRet == ReadResult(<<>>, 0, FALSE, FALSE, FALSE)

LogInit ==
  /\ streams = <<>>
  /\ default_stream_id = NoId
  /\ nextId = 1
  /\ lastOp = Op("none", NoId, NoRet)

\* _get_current_logfilename() or fallback; failed: get_variable raised
current_logfilename(failed, fallback) ==
  IF failed \/ epLogFileName = "" THEN fallback ELSE epLogFileName

\* start_logging(mode, logfile_path, reset).  applied: the endpoint took the new
\* LOGFILENAME / LOGFILEMODE (set_variable, or the setvar script sent instead);
\* readFailed: reading LOGFILENAME raised.
start_logging(mode, logfile_path, reset, applied, readFailed) ==
  /\ nextId <= MaxStarts
  /\ IF mode \notin {"logfile", "lastprompt"}
       THEN \* raise ValueError
            /\ lastOp' = Op("start_logging", NoId, [NoRet EXCEPT !.raised = TRUE])
            /\ UNCHANGED <<streams, default_stream_id, nextId, fileVars>>
       ELSE IF mode = "lastprompt"
         THEN /\ streams' = start_stream(streams, OutputStream(nextId, "lastprompt", "", 0, FALSE))
              /\ default_stream_id' = nextId
              /\ nextId' = nextId + 1
              /\ lastOp' = Op("start_logging", nextId, NoRet)
              /\ UNCHANGED fileVars
         ELSE LET path0 == IF logfile_path # "" THEN logfile_path
                           ELSE current_logfilename(readFailed, PathDefault)
                  name1 == IF logfile_path # "" /\ applied THEN path0 ELSE epLogFileName
                  mode1 == IF applied THEN 1 ELSE epLogFileMode
                  path  == IF logfile_path # "" THEN path0
                           ELSE IF readFailed \/ name1 = "" THEN path0 ELSE name1
                  cursor == IF ~reset /\ files[path].exists
                              THEN Len(files[path].data) ELSE 0
              IN /\ epLogFileName' = name1
                 /\ epLogFileMode' = mode1
                 /\ streams' = start_stream(streams, OutputStream(nextId, "logfile", path, cursor, TRUE))
                 /\ default_stream_id' = nextId
                 /\ nextId' = nextId + 1
                 /\ lastOp' = Op("start_logging", nextId, [NoRet EXCEPT !.new_cursor = cursor])
                 /\ UNCHANGED files

\* stop_logging(stream_id).  applied: the endpoint took LOGFILEMODE = 0.
stop_logging(id, applied) ==
  /\ IF ~HasStream(streams, id)
       THEN /\ lastOp' = Op("stop_logging", id, NoRet)
            /\ streams' = stop_streams(streams, id)
            /\ UNCHANGED <<default_stream_id, fileVars>>
       ELSE LET s  == GetStream(streams, id)
                ss == stop_streams(streams, id)
                d  == stop_default(streams, default_stream_id, id)
                remaining_logfile == HasDefault(ss, d) /\ GetStream(ss, d).mode = "logfile"
            IN /\ streams' = ss
               /\ default_stream_id' = d
               /\ epLogFileMode' =
                    IF s.mode = "logfile" /\ s.started_by_server /\ ~remaining_logfile /\ applied
                      THEN 0 ELSE epLogFileMode
               /\ lastOp' = Op("stop_logging", id, [NoRet EXCEPT !.stored = TRUE])
               /\ UNCHANGED <<files, epLogFileName>>
  /\ UNCHANGED nextId

\* get_new_output_since(stream_id, cursor, max_bytes)
get_new_output_since(id, cursor, max_bytes) ==
  LET r == read_new(streams, files, id, cursor, max_bytes)
  IN /\ streams' = streams_after_read(streams, id, r)
     /\ lastOp' = Op("get_new_output_since", id, r)
     /\ UNCHANGED <<default_stream_id, nextId, fileVars>>

\* get_last_output(source = "logfile")
get_last_output ==
  /\ lastOp' = Op("get_last_output", default_stream_id,
                  IF HasDefault(streams, default_stream_id)
                    THEN [NoRet EXCEPT !.text = read_tail(streams, files, default_stream_id)]
                    ELSE NoRet)
  /\ UNCHANGED <<streams, default_stream_id, nextId, fileVars>>

\* The log block of send_command (server.py:987-997): read_new from the default
\* stream's stored cursor.
send_command_log ==
  IF HasDefault(streams, default_stream_id)
       /\ IsLogfileStream(GetStream(streams, default_stream_id))
    THEN read_new(streams, files, default_stream_id,
                  GetStream(streams, default_stream_id).cursor, SEND_MAX_BYTES)
    ELSE [NoRet EXCEPT !.raised = TRUE]   \* log_block = None

send_command_streams(r) ==
  IF r.raised THEN streams ELSE streams_after_read(streams, default_stream_id, r)

\* send_command(command, wait = False): nothing is polled; the log block is read.
send_command_nowait ==
  LET r == send_command_log
  IN /\ streams' = send_command_streams(r)
     /\ lastOp' = Op("send_command", default_stream_id, r)
     /\ UNCHANGED <<default_stream_id, nextId, fileVars>>

\* Something outside the server happened since the last tool call.
EnvOp == lastOp' = Op("env", NoId, NoRet)

(***************************************************************************)
(* Specification of the stream manager and the logging tools               *)
(***************************************************************************)
CursorArgs == -1..(MaxFile + 1)
MaxBytesSet == {0, 1, 2, SEND_MAX_BYTES}

(***************************************************************************)
(* Marker protocol: tagged lines in log text                               *)
(***************************************************************************)
\* text.splitlines(): the lines of a text, newlines dropped; no empty last line.
RECURSIVE SplitFrom(_, _, _)
SplitFrom(text, i, line) ==
  IF i > Len(text) THEN (IF line = <<>> THEN <<>> ELSE <<line>>)
  ELSE IF text[i].k = "nl" THEN <<line>> \o SplitFrom(text, i + 1, <<>>)
  ELSE SplitFrom(text, i + 1, Append(line, text[i]))
splitlines(text) == SplitFrom(text, 1, <<>>)

\* "\n".join(lines)
RECURSIVE join_lines(_)
join_lines(lines) ==
  IF lines = <<>> THEN <<>>
  ELSE IF Len(lines) = 1 THEN lines[1]
  ELSE lines[1] \o <<NL>> \o join_lines(Tail(lines))

\* the bytes that hold the tag
HasMarker(b) == b.k \in {"h", "g"}

\* line.rfind(_MCP_JSON_MARKER): the position of the last tag, 0 when none
rfind_marker(line) ==
  IF \E j \in 1..Len(line) : HasMarker(line[j])
    THEN CHOOSE j \in 1..Len(line) :
           HasMarker(line[j]) /\ \A j2 \in (j + 1)..Len(line) : ~HasMarker(line[j2])
    ELSE 0

\* s.strip(): from the first to the last character that is not a blank
strip(str) ==
  IF \A j \in 1..Len(str) : str[j].k = "sp" THEN <<>>
  ELSE SubSeq(str,
              CHOOSE j \in 1..Len(str) :
                str[j].k # "sp" /\ \A j2 \in 1..(j - 1) : str[j2].k = "sp",
              CHOOSE j \in 1..Len(str) :
                str[j].k # "sp" /\ \A j2 \in (j + 1)..Len(str) : str[j2].k = "sp")

\* line[idx + len(_MCP_JSON_MARKER):].strip()
payload_of(line, idx) ==
  CHOOSE payload \in
    {strip(rest) : rest \in
       {(IF line[idx].k = "h" THEN <<MsgByte("hd", line[idx].m)>> ELSE <<>>)
          \o SubSeq(line, idx + 1, Len(line))}} : TRUE

\* json.loads(payload): an object, another value, or an exception.  An
\* object's text is whole, or its head and its rest with blanks between.
json_loads(payload) ==
  IF Len(payload) = 1 /\ payload[1].k = "o"
    THEN [kind |-> "object", m |-> payload[1].m]
  ELSE IF /\ Len(payload) >= 2
          /\ payload[1].k = "hd"
          /\ payload[Len(payload)].k = "t"
          /\ payload[Len(payload)].m = payload[1].m
          /\ \A j \in 2..(Len(payload) - 1) : payload[j].k = "sp"
    THEN [kind |-> "object", m |-> payload[1].m]
  ELSE IF Len(payload) = 1 /\ payload[1].k = "v"
    THEN [kind |-> "value", m |-> NoMsg]
  ELSE [kind |-> "raise", m |-> NoMsg]

\* a variant that takes every payload json.loads accepts
payload_parses_any(payload) == payload # <<>> /\ json_loads(payload).kind # "raise"

\* the payload is not empty and json.loads(payload) gives an object
payload_parses(payload) == payload # <<>> /\ json_loads(payload).kind = "object"

\* the payload after the last tag of a line, for a line that holds the tag
line_payloads(line) == {payload_of(line, idx) : idx \in {rfind_marker(line)} \ {0}}

\* _extract_mcp_json_messages(text), given the lines of the text
RECURSIVE extract_from_lines(_)
extract_from_lines(lines) ==
  IF lines = <<>> THEN <<>>
  ELSE LET objs == {json_loads(payload).m : payload \in
                      {p \in UNION {line_payloads(line) : line \in {lines[1]}} :
                         payload_parses(p)}}
       IN (IF objs = {} THEN <<>> ELSE <<CHOOSE obj \in objs : TRUE>>)
            \o extract_from_lines(Tail(lines))

\* a variant that keeps the first line that holds the tag
first_marker_line(lines) ==
  IF \E i \in 1..Len(lines) : rfind_marker(lines[i]) # 0
    THEN CHOOSE i \in 1..Len(lines) :
           rfind_marker(lines[i]) # 0 /\ \A i2 \in 1..(i - 1) : rfind_marker(lines[i2]) = 0
    ELSE 0

\* `for line in text.splitlines(): if _MCP_JSON_MARKER in line: last_line = line`:
\* the position of the last line that holds the tag, 0 when none
last_marker_line(lines) ==
  IF \E i \in 1..Len(lines) : rfind_marker(lines[i]) # 0
    THEN CHOOSE i \in 1..Len(lines) :
           rfind_marker(lines[i]) # 0 /\ \A i2 \in (i + 1)..Len(lines) : rfind_marker(lines[i2]) = 0
    ELSE 0

\* What _extract_mcp_json gives: the object, or the RuntimeError it raises.
Extracted(m) == [raised |-> FALSE, error |-> "", obj |-> m]
ExtractError(msg) == [raised |-> TRUE, error |-> msg, obj |-> NoMsg]

\* a variant that reports an empty text as a text without the tag
no_text_error_as_not_found == "MCP JSON marker not found in output"

\* `if not text: raise RuntimeError("No output text to parse")`
no_text_error == "No output text to parse"

\* _extract_mcp_json(text)
extract_mcp_json(text) ==
  IF text = <<>> THEN ExtractError(no_text_error)
  ELSE LET lines == splitlines(text)
           i     == last_marker_line(lines)
       IN IF i = 0 THEN ExtractError("MCP JSON marker not found in output")
          ELSE LET last_line == lines[i]
                   idx       == rfind_marker(last_line)
                   payload   == payload_of(last_line, idx)
               IN IF payload = <<>>
                    THEN ExtractError("MCP JSON marker present but payload is empty")
                  ELSE IF json_loads(payload).kind = "raise"
                    THEN ExtractError("Failed to parse MCP JSON payload")
                  ELSE IF json_loads(payload).kind # "object"
                    THEN ExtractError("MCP JSON payload is not an object")
                  ELSE Extracted(json_loads(payload).m)

extract_mcp_json_messages(text) == extract_from_lines(splitlines(text))

\* rfind("\n"): the position of the last newline, 0 when none
LastNL(buf) ==
  IF \E j \in 1..Len(buf) : buf[j].k = "nl"
    THEN CHOOSE j \in 1..Len(buf) :
           buf[j].k = "nl" /\ \A j2 \in (j + 1)..Len(buf) : buf[j2].k # "nl"
    ELSE 0

\* _consume_complete_lines(buf) -> (lines, rest)
consume_complete_lines(buf) ==
  IF LastNL(buf) = 0 THEN [lines |-> <<>>, rest |-> buf]
  ELSE [lines |-> splitlines(SubSeq(buf, 1, LastNL(buf))),
        rest  |-> SubSeq(buf, LastNL(buf) + 1, Len(buf))]

(***************************************************************************)
(* The endpoint's command channel and the selection emitter                *)
(***************************************************************************)
MaxSel == 1

\* (mcp--emit-json json): (prompt (strcat "\n" "[MCP:JSON]" json))
emit_json(m) == <<NL, MsgByte("h", m), MsgByte("t", m)>>

\* The handle of the i-th entity of a selection set.
Handle(i) == i + 1

\* a variant that writes no item_begin event
emit_items_none(req, i, n) == <<>>

\* the `while (< i n)` loop of mcp-selection--emit-from-ss-lite
RECURSIVE emit_items(_, _, _)
emit_items(req, i, n) ==
  IF i >= n THEN <<>>
  ELSE emit_json(Msg(req, "item_begin", i, 0, Handle(i), TRUE)) \o emit_items(req, i + 1, n)

\* (mcp-selection--emit-from-ss-lite req_id ss max_objects), total = (sslength ss)
emit_from_ss_lite(req, total, mo) ==
  LET n == IF mo > 0 /\ total > mo THEN mo ELSE total
  IN emit_json(Msg(req, "start", 0, n, 0, TRUE))
       \o emit_items(req, 0, n)
       \o emit_json(Msg(req, "done", 0, 0, 0, TRUE))

Script(kind, req, mo) == [kind |-> kind, req |-> req, mo |-> mo]

ChanInit ==
  /\ epScripts = <<>>
  /\ epOut = <<>>
  /\ epImplied \in 0..MaxSel

\* doc.SendCommand(cmd): the script joins the endpoint's command line, and the
\* endpoint is in a command from then on (until it changes state on its own)
SendCommand(script) ==
  /\ epScripts' = Append(epScripts, script)
  /\ epQuiescent' = FALSE
  /\ epCmdActive' = 1

\* The endpoint runs the oldest script.  An implied-selection script runs on
\* its own; a prompt script runs once the user has picked `picked` entities.
\* prompt: whether the endpoint prints its command prompt line afterwards.
EndpointRun ==
  /\ epScripts # <<>>
  /\ \E picked \in 0..MaxSel, prompt \in BOOLEAN :
       LET sc    == Head(epScripts)
           total == IF sc.kind = "implied" THEN epImplied ELSE picked
       IN /\ sc.kind = "implied" => picked = 0
          /\ epOut' = epOut \o emit_from_ss_lite(sc.req, total, sc.mo)
                        \o (IF prompt THEN <<NL, Byte("x")>> ELSE <<>>)
  /\ epScripts' = Tail(epScripts)
  /\ UNCHANGED epImplied

\* The length of the first printed chunk of `out`: up to the next newline.
RECURSIVE ChunkLen(_, _)
ChunkLen(out, j) ==
  IF j > Len(out) THEN Len(out)
  ELSE IF out[j].k = "nl" THEN j - 1
  ELSE ChunkLen(out, j + 1)

\* The endpoint writes printed output to its log file, one printed chunk (the
\* output of one prompt call, "\n...") at a time; with logging off the output
\* is not logged.
EndpointFlush ==
  /\ epOut # <<>>
  /\ LET n == ChunkLen(epOut, 2)
     IN /\ epOut' = SubSeq(epOut, n + 1, Len(epOut))
        /\ IF epLogFileMode = 1 /\ epLogFileName # ""
             THEN files' = [files EXCEPT ![epLogFileName] =
                              [exists |-> TRUE,
                               data |-> files[epLogFileName].data \o SubSeq(epOut, 1, n)]]
             ELSE UNCHANGED files
  /\ UNCHANGED <<epScripts, epImplied, epLogFileName, epLogFileMode>>

(***************************************************************************)
(* _collect_selection_stream_lite                                          *)
(***************************************************************************)
\* locals started, items, order of the collector, and how _handle_msgs ended
\* (done, raised); cause: the message whose ok = false made it raise
NoAcc ==
  [started |-> NoMsg, items |-> <<>>, order |-> <<>>, done |-> FALSE, raised |-> FALSE,
   cause |-> NoMsg]

InSeq(x, q) == \E j \in 1..Len(q) : q[j] = x

\* items[i] = {...}: items is kept as a sequence of <<i, handle>>, one per index
put_item(items, i, h) ==
  IF \E j \in 1..Len(items) : items[j][1] = i
    THEN [j \in 1..Len(items) |-> IF items[j][1] = i THEN <<i, h>> ELSE items[j]]
    ELSE Append(items, <<i, h>>)

item_of(items, i) == items[CHOOSE j \in 1..Len(items) : items[j][1] = i]

\* a variant that does not filter by request id
same_request_any(m, req) == TRUE

\* `m.get("req_id") != req_id` -> skip
same_request(m, req) == m.req = req

\* a variant that takes no object for an error
is_error_never(m) == FALSE

\* `m.get("ok") is False`, `obj.get("ok") is False`
is_error(m) == ~m.ok

\* _handle_msgs(msgs): folds the messages into the collector's locals; stops at
\* the first done (return True) or the first ok = false (raise)
RECURSIVE handle_msgs(_, _, _)
handle_msgs(msgs, req, acc) ==
  IF msgs = <<>> THEN acc
  ELSE LET m == Head(msgs) IN
    IF ~same_request(m, req) THEN handle_msgs(Tail(msgs), req, acc)
    ELSE IF is_error(m) THEN [acc EXCEPT !.raised = TRUE, !.cause = m]
    ELSE IF m.ev = "start" THEN handle_msgs(Tail(msgs), req, [acc EXCEPT !.started = m])
    ELSE IF m.ev = "item_begin"
      THEN handle_msgs(Tail(msgs), req,
             [acc EXCEPT !.items = put_item(acc.items, m.i, m.h),
                         !.order = IF InSeq(m.i, acc.order) THEN acc.order
                                   ELSE Append(acc.order, m.i)])
    ELSE IF m.ev = "done" THEN [acc EXCEPT !.done = TRUE]
    ELSE handle_msgs(Tail(msgs), req, acc)

\* a variant that sorts in descending order
RECURSIVE sorted_descending(_)
sorted_descending(S) ==
  IF S = {} THEN <<>>
  ELSE LET hi == CHOOSE x \in S : \A y \in S : x >= y
       IN <<hi>> \o sorted_descending(S \ {hi})

\* sorted(order)
RECURSIVE sorted(_)
sorted(S) ==
  IF S = {} THEN <<>>
  ELSE LET lo == CHOOSE x \in S : \A y \in S : x <= y
       IN <<lo>> \o sorted(S \ {lo})

SeqRange(q) == {q[j] : j \in 1..Len(q)}

\* objs = [items[i] for i in sorted(order)]
objects_of(acc) ==
  LET idx == sorted(SeqRange(acc.order))
  IN [j \in 1..Len(idx) |-> [i |-> idx[j], handle |-> item_of(acc.items, idx[j])[2]]]

\* the dict returned by the collector
collect_result(req, acc, timed_out, cur) ==
  [req_id |-> req,
   count |-> IF acc.started.ev = "start" THEN acc.started.count ELSE Len(objects_of(acc)),
   objects |-> objects_of(acc),
   timed_out |-> timed_out,
   cursor |-> cur]

NoOut == [req_id |-> NoReq, count |-> 0, objects |-> <<>>, timed_out |-> FALSE, cursor |-> 0]

ColInit ==
  /\ cReq = NoReq
  /\ cTimeout = 0
  /\ cT0 = 0
  /\ cCur = 0
  /\ cBuf = <<>>
  /\ cAcc = NoAcc
  /\ cTimedOut = FALSE
  /\ cStream = NoId
  /\ cSeen = <<>>

\* get_default() is a logfile stream with a path
DefaultIsLogfile(ss, d) == HasDefault(ss, d) /\ IsLogfileStream(GetStream(ss, d))

(***************************************************************************)
(* selection                                                               *)
(***************************************************************************)
\* timeout of the implied phase: min(10.0, timeout_sec)
IMPLIED_TIMEOUT == 10

\* poll intervals of send_command (0.1 s) and of the collector (0.2 s) are
\* below the clock's resolution: a sleep yields, and the clock's ticks carry time
SUB_TICK == 0

Req1 == 1
Req2 == 2

SelTimeouts == {5, 15}
SelMaxObjects == {-1}

NoResult == [kind |-> "none", out |-> NoOut]

SelInit ==
  /\ sPc = "idle"
  /\ sArgs = [timeout_sec |-> 0, mo |-> -1]
  /\ sTemp = NoId
  /\ sSent = <<>>
  /\ sResult = NoResult

\* The `finally` block: stop_logging(temp_stream_id) when a temp stream was made.
\* applied: the endpoint took LOGFILEMODE = 0.  connected: _ensure_connected()
\* at the head of stop_logging found the endpoint; when it does not, stop_logging
\* raises before it touches the registry and the block swallows the exception.
sel_finally(ss, d, applied, connected) ==
  IF sTemp # NoId /\ connected /\ HasStream(ss, sTemp)
    THEN LET s   == GetStream(ss, sTemp)
             ss2 == stop_streams(ss, sTemp)
             d2  == stop_default(ss, d, sTemp)
             remaining_logfile == HasDefault(ss2, d2) /\ GetStream(ss2, d2).mode = "logfile"
         IN /\ streams' = ss2
            /\ default_stream_id' = d2
            /\ epLogFileMode' =
                 IF s.mode = "logfile" /\ s.started_by_server /\ ~remaining_logfile /\ applied
                   THEN 0 ELSE epLogFileMode
    ELSE /\ streams' = ss
         /\ default_stream_id' = d
         /\ UNCHANGED epLogFileMode

\* selection(timeout_sec, max_objects) up to its first wait: _ensure_logfile_stream,
\* then send_command(expr1, wait=True) sends the implied script and enters
\* wait_for_idle.  applied, readFailed: as in start_logging.
SelectionStart ==
  /\ sPc = "idle"
  /\ \E timeout_sec \in SelTimeouts, mo \in SelMaxObjects :
       sArgs' = [timeout_sec |-> timeout_sec, mo |-> mo]
  /\ IF DefaultIsLogfile(streams, default_stream_id)
       THEN /\ sTemp' = NoId
            /\ UNCHANGED <<logVars, fileVars>>
       ELSE /\ \E applied \in BOOLEAN, readFailed \in BOOLEAN :
                 start_logging("logfile", "", FALSE, applied, readFailed)
            /\ sTemp' = nextId
  /\ SendCommand(Script("implied", Req1, sArgs'.mo))
  /\ sSent' = Append(sSent, "implied")
  /\ wait_for_idle_enter(Min(IMPLIED_TIMEOUT, sArgs'.timeout_sec), SUB_TICK)
  /\ sPc' = "wait1"
  /\ UNCHANGED <<sResult, epOut, epImplied, colVars, now, retryVars, fnVars, connVars, runVars>>

\* Entry of the collector with the log block of send_command: the messages of
\* initial_text are handled first; a done among them ends the collection.
\* Gives the next pc of selection and sets the collector's variables.
collect_enter(req, timeout, r, pcLoop, pcDone) ==
  \E lines \in {splitlines(r.text)} :
  \E msgs \in {extract_from_lines(lines)} :
  \E acc \in {IF ~DefaultIsLogfile(streams, default_stream_id)
                THEN [NoAcc EXCEPT !.raised = TRUE]   \* "No active logfile stream"
                ELSE handle_msgs(msgs, req, NoAcc)} :
     /\ cReq' = req
     /\ cStream' = default_stream_id
     /\ cTimedOut' = FALSE
     /\ cTimeout' = timeout
     /\ now' = 0          \* t0 = time.time(): only differences of the clock are
     /\ cT0' = now'       \* read, so the clock is re-based where t0 is taken
     /\ cCur' = r.new_cursor
     /\ cBuf' = <<>>
     /\ cAcc' = acc
     /\ cSeen' = lines
     /\ sPc' = IF acc.raised \/ acc.done THEN pcDone ELSE pcLoop

\* send_command(expr1, wait=True) after wait_for_idle returned: the log block is
\* read; then _collect_selection_stream_lite is entered for req_id1.
SelAfterWait ==
  /\ sPc = "wait1"
  /\ wPc = "returned"
  /\ \E r \in {send_command_log} :
        /\ streams' = send_command_streams(r)
        /\ collect_enter(Req1, Min(IMPLIED_TIMEOUT, sArgs.timeout_sec), r, "collect1", "decide")
  /\ lastOp' = Op("send_command", default_stream_id, NoRet)
  /\ wait_for_idle_leave
  /\ UNCHANGED <<default_stream_id, nextId, fileVars, chanVars, epQuiescent, epCmdActive, retryVars, fnVars, connVars, runVars>>
  /\ UNCHANGED <<sArgs, sTemp, sSent, sResult>>

\* One iteration of the collector's `while True` loop.
CollectPoll ==
  /\ sPc \in {"collect1", "collect2"}
  /\ IF timed_out_at(now, cT0, cTimeout)
       THEN \* timed_out = True; break
            /\ cTimedOut' = TRUE
            /\ sPc' = IF sPc = "collect1" THEN "decide" ELSE "finish"
            /\ UNCHANGED <<cCur, cBuf, cAcc, cSeen, streams>>
       ELSE \E r \in {read_new(streams, files, cStream, cCur, SEND_MAX_BYTES)} :
            \E cl \in {consume_complete_lines(cBuf \o r.text)} :
            \E text \in {join_lines(cl.lines)} :
            \E msgs \in {extract_mcp_json_messages(text)} :
            \E acc \in {handle_msgs(msgs, cReq, cAcc)} :
               /\ streams' = streams_after_read(streams, cStream, r)
               /\ cCur' = r.new_cursor
               /\ UNCHANGED cTimedOut
               /\ IF r.text # <<>>
                    THEN /\ cBuf' = cl.rest
                         /\ cSeen' = cSeen \o cl.lines
                         /\ cAcc' = acc
                         /\ sPc' = IF acc.raised \/ acc.done
                                     THEN (IF sPc = "collect1" THEN "decide" ELSE "finish")
                                     ELSE sPc
                    ELSE \* time.sleep(poll_interval_sec)
                         UNCHANGED <<cBuf, cSeen, cAcc, sPc>>
  /\ UNCHANGED <<cReq, cTimeout, cT0, cStream>>
  /\ UNCHANGED <<default_stream_id, nextId, lastOp, fileVars, chanVars, envVars, retryVars, fnVars, connVars, runVars, waitVars>>
  /\ UNCHANGED <<sArgs, sTemp, sSent, sResult>>

\* The clock advances while the collector waits for its timeout.
CollectTick ==
  /\ sPc \in {"collect1", "collect2"}
  /\ now - cT0 < cTimeout
  /\ now' = now + TickStep
  /\ UNCHANGED <<epQuiescent, epCmdActive>>

\* `if not out1.get("timed_out") and int(out1.get("count") or 0) > 0: return out1`
returns_implied(out1) == ~out1.timed_out /\ out1.count > 0

\* `try: cmdactive = int(get_variable("CMDACTIVE") or 0) except: cmdactive = 0`
cmdactive_read(failed, value) == IF failed THEN 0 ELSE value

\* selection after the implied phase: out1 is returned, or the collector raised,
\* or CMDACTIVE is checked and the prompt script is sent with
\* send_command(expr2, wait=False) and the collector entered for req_id2.
\* failed: get_variable("CMDACTIVE") raised; applied, connected: as in sel_finally.
SelDecide ==
  /\ sPc = "decide"
  /\ \E failed \in BOOLEAN, applied \in BOOLEAN, connected \in BOOLEAN :
       \E out1 \in {collect_result(cReq, cAcc, cTimedOut, cCur)} :
       \E cmdactive \in {cmdactive_read(failed, epCmdActive)} :
          IF cAcc.raised
            THEN /\ sResult' = [kind |-> "raise", out |-> NoOut]
                 /\ sel_finally(streams, default_stream_id, applied, connected)
                 /\ sPc' = "done"
                 /\ UNCHANGED <<sSent, epScripts, colVars, envVars>>
          ELSE IF returns_implied(out1)
            THEN /\ sResult' = [kind |-> "return", out |-> out1]
                 /\ sel_finally(streams, default_stream_id, applied, connected)
                 /\ sPc' = "done"
                 /\ UNCHANGED <<sSent, epScripts, colVars, envVars>>
          ELSE IF cmdactive # 0
            THEN /\ sResult' = [kind |-> "raise", out |-> NoOut]
                 /\ sel_finally(streams, default_stream_id, applied, connected)
                 /\ sPc' = "done"
                 /\ UNCHANGED <<sSent, epScripts, colVars, envVars>>
          ELSE \E r \in {send_command_log} :
                  /\ SendCommand(Script("prompt", Req2, sArgs.mo))
                  /\ sSent' = Append(sSent, "prompt")
                  /\ streams' = send_command_streams(r)
                  /\ collect_enter(Req2, sArgs.timeout_sec, r, "collect2", "finish")
                  /\ UNCHANGED <<sResult, default_stream_id, epLogFileMode>>
  /\ lastOp' = Op("selection", default_stream_id, NoRet)
  /\ UNCHANGED <<nextId, files, epLogFileName, epOut, epImplied, retryVars, fnVars, connVars, runVars, waitVars>>
  /\ UNCHANGED <<sArgs, sTemp>>

\* selection returns out2 (or the collector raised), through the `finally` block.
SelFinish ==
  /\ sPc = "finish"
  /\ \E applied \in BOOLEAN, connected \in BOOLEAN :
       sel_finally(streams, default_stream_id, applied, connected)
  /\ sResult' = IF cAcc.raised THEN [kind |-> "raise", out |-> NoOut]
                ELSE [kind |-> "return", out |-> collect_result(cReq, cAcc, cTimedOut, cCur)]
  /\ sPc' = "done"
  /\ lastOp' = Op("selection", default_stream_id, NoRet)
  /\ UNCHANGED <<nextId, files, epLogFileName, chanVars, envVars, retryVars, fnVars, connVars, runVars, waitVars, colVars>>
  /\ UNCHANGED <<sArgs, sTemp, sSent>>

(***************************************************************************)
(* AutoCADBridge: candidate identities, connect, ensure_connection         *)
(***************************************************************************)
\* An identity "AutoCAD.Application.<v>" and the unversioned
\* "AutoCAD.Application"; parts: the dot-separated parts of the name.
V(v) == [parts |-> 3, v |-> v]
GENERIC == [parts |-> 2, v |-> 0]
NoAlias == [parts |-> 0, v |-> 0]

\* `for v in range(30, 18, -1)`
NEWEST == 30
OLDEST == 19

\* _get_target_major(): None, or the integer of AUTOCAD_MCP_TARGET_MAJOR
NoMajor == [has |-> FALSE, v |-> 0]
Major(v) == [has |-> TRUE, v |-> v]

\* `if target_major:` -- None and 0 are both false
target_is_set(target_major) == target_major.has /\ target_major.v # 0

\* the versioned identities from v down to OLDEST that are not yet listed
RECURSIVE versioned_from(_, _)
versioned_from(v, progids) ==
  IF v < OLDEST THEN progids
  ELSE versioned_from(v - 1, IF InSeq(V(v), progids) THEN progids ELSE Append(progids, V(v)))

\* _get_acad_progids().  alias: the CurVer value found in the registry when
\* AUTOCAD_MCP_PREFER_CURVER is set, NoAlias otherwise.
get_acad_progids(target_major, alias) ==
  LET pinned    == IF target_is_set(target_major) THEN <<V(target_major.v)>> ELSE <<>>
      versioned == versioned_from(NEWEST, pinned)
      curver    == IF alias # NoAlias /\ ~InSeq(alias, versioned)
                     THEN Append(versioned, alias) ELSE versioned
  IN Append(curver, GENERIC)

\* An ACADVER value is a text of number, dot and other tokens:
\* "24.0" is <<Num(24), Dot, Num(0)>>.
Num(n) == [t |-> "num", n |-> n]
Dot == [t |-> "dot", n |-> 0]
Txt == [t |-> "txt", n |-> 0]

\* _parse_acadver_major(v): the first match of (\d+)\.(\d+) gives the major,
\* None (NoMajor) without a match
parse_acadver_major(v) ==
  LET hits == {j \in 1..(Len(v) - 2) :
                 v[j].t = "num" /\ v[j + 1].t = "dot" /\ v[j + 2].t = "num"}
  IN IF hits = {} THEN NoMajor
     ELSE Major(v[CHOOSE j \in hits : \A j2 \in hits : j <= j2].n)

\* A running endpoint: its ACADVER text, and whether reading it raises.
Inst(id, acadver, fails) == [id |-> id, acadver |-> acadver, fails |-> fails]
NoInst == Inst(0, <<>>, FALSE)

\* a variant that takes every version
version_ok_any(inst, target_major) == TRUE

\* the version check of _attach and of the Dispatch loop: a failed query, an
\* unparsable value and another major all reject
version_ok(inst, target_major) ==
  IF ~target_major.has THEN TRUE
  ELSE IF inst.fails THEN FALSE
  ELSE parse_acadver_major(inst.acadver) # NoMajor
         /\ parse_acadver_major(inst.acadver) = target_major

Call(op, progid) == [op |-> op, progid |-> progid]

\* The bridge's fields and what a call of connect did so far.
Bridge(acad, doc, connected, calls, done) ==
  [acad |-> acad, doc |-> doc, connected |-> connected, calls |-> calls, done |-> done]

RotOf(r, progid) == IF progid \in DOMAIN r THEN r[progid] ELSE NoInst

\* `for progid in self._get_acad_progids(): ok = com_retry(lambda: _attach(progid))`:
\* GetActiveObject raises for an identity without a running endpoint; _attach
\* sets _acad and _doc before it checks the version.
RECURSIVE attach_loop(_, _, _, _)
attach_loop(progids, r, target_major, b) ==
  IF progids = <<>> THEN b
  ELSE LET progid == Head(progids)
           inst   == RotOf(r, progid)
           calls  == Append(b.calls, Call("GetActiveObject", progid))
       IN IF inst = NoInst
            THEN attach_loop(Tail(progids), r, target_major, [b EXCEPT !.calls = calls])
          ELSE IF version_ok(inst, target_major)
            THEN Bridge(inst, inst, TRUE, calls, TRUE)
          ELSE attach_loop(Tail(progids), r, target_major,
                           Bridge(inst, inst, FALSE, calls, FALSE))

\* `use_dispatch = target_major is not None or AUTOCAD_MCP_USE_DISPATCH in (...)`
use_dispatch(target_major, flag) == target_major.has \/ flag

\* `if "." not in progid: continue`
has_dot(progid) == progid.parts > 1

\* The Dispatch loop.  installed: the identity Dispatch can create with the
\* endpoint it gives (Dispatch raises for every other identity); spawned: the
\* call started a new process.
RECURSIVE dispatch_loop(_, _, _, _, _, _)
dispatch_loop(progids, installed, spawned, allow_new, target_major, b) ==
  IF progids = <<>> THEN b
  ELSE LET progid == Head(progids)
           calls  == Append(b.calls, [Call("Dispatch", progid) EXCEPT !.op =
                              IF progid = installed.progid /\ spawned
                                THEN "Dispatch:new" ELSE "Dispatch"])
           rest   == Tail(progids)
       IN IF ~has_dot(progid)
            THEN dispatch_loop(rest, installed, spawned, allow_new, target_major, b)
          ELSE IF progid # installed.progid
            THEN dispatch_loop(rest, installed, spawned, allow_new, target_major,
                               [b EXCEPT !.calls = calls])
          ELSE IF ~allow_new /\ spawned
            THEN dispatch_loop(rest, installed, spawned, allow_new, target_major,
                               Bridge(NoInst, NoInst, FALSE, Append(calls, Call("Quit", progid)), FALSE))
          ELSE IF version_ok(installed.inst, target_major)
            THEN Bridge(installed.inst, installed.inst, TRUE, calls, TRUE)
          ELSE dispatch_loop(rest, installed, spawned, allow_new, target_major,
                             Bridge(installed.inst, installed.inst, b.connected, calls, FALSE))

\* connect(attach_or_launch=True).  rot2: the running endpoints after the
\* launch; waits: the launch-wait loop makes a pass (wait_sec > 0).
connect(c, r, installed, spawned, rot2, waits, b0) ==
  LET progids == get_acad_progids(c.target_major, c.alias)
      b1 == attach_loop(progids, r, c.target_major, [b0 EXCEPT !.calls = <<>>, !.done = FALSE])
      b2 == IF b1.done \/ ~use_dispatch(c.target_major, c.use_dispatch) THEN b1
            ELSE dispatch_loop(progids, installed, spawned, c.allow_new, c.target_major, b1)
      b3 == IF b2.done \/ ~c.acad_exe THEN b2
            ELSE LET launched == [b2 EXCEPT !.calls = Append(b2.calls, Call("Popen", GENERIC))]
                 IN IF waits THEN attach_loop(progids, rot2, c.target_major, launched)
                    ELSE launched
  IN IF b3.done THEN b3 ELSE [b3 EXCEPT !.connected = FALSE]

\* a variant that attaches anew on every call
probe_passes_never(b, probeOk) == FALSE

\* ensure_connection() keeps what it holds: `_connected`, `_acad` and `_doc`
\* are set and `str(self._doc.Name)` does not raise
probe_passes(b, probeOk) ==
  b.connected /\ b.acad # NoInst /\ b.doc # NoInst /\ probeOk

\* ensure_connection()
ensure_connection(c, r, installed, spawned, rot2, waits, probeOk, b0) ==
  IF ~b0.connected \/ b0.acad = NoInst \/ b0.doc = NoInst
    THEN connect(c, r, installed, spawned, rot2, waits, b0)
  ELSE IF probe_passes(b0, probeOk)
    THEN [b0 EXCEPT !.calls = <<Call("Name", GENERIC)>>, !.done = TRUE]
  ELSE LET b == connect(c, r, installed, spawned, rot2, waits, [b0 EXCEPT !.connected = FALSE])
       IN [b EXCEPT !.calls = <<Call("Name", GENERIC)>> \o b.calls]

\* The calls of _run_lisp_json: none is running, the key holds no record.
\* A stored record is known by the call whose script made it (NoRun: it was
\* there before the first call).
RunIds == {1, 2}
Rec(has, by) == [has |-> has, by |-> by]
NoRec == Rec(FALSE, NoId)
OldRec == Rec(TRUE, NoId)
NewRec(o) == Rec(TRUE, o)
NoRun == [pc |-> "idle", temp |-> NoId, relied |-> NoId, d0 |-> NoId, x0 |-> NoRec,
          overwrite |-> FALSE, after |-> FALSE, settled |-> FALSE,
          result |-> [raised |-> FALSE, cause |-> NoMsg, obj |-> NoMsg]]
RunIdle ==
  /\ runOps = [o \in RunIds |-> NoRun]
  /\ xStore = NoRec

\* The bridge of the other specifications: it holds a live endpoint.
LiveInst == Inst(1, <<Num(24), Dot, Num(0)>>, FALSE)
ConnIdle ==
  /\ conf = [target_major |-> NoMajor, alias |-> NoAlias, use_dispatch |-> FALSE,
             allow_new |-> TRUE, acad_exe |-> FALSE]
  /\ rot = [p \in {GENERIC} |-> LiveInst]
  /\ bAcad = LiveInst
  /\ bDoc = LiveInst
  /\ bConnected = TRUE
  /\ epCalls = <<>>

(***************************************************************************)
(* Specification of com_retry alone                                        *)
(***************************************************************************)
ChanIdle == ChanInit /\ epImplied = 0

IdleFiles ==
  /\ epLogFileName = PathAcad
  /\ epLogFileMode = 0
  /\ files = [p \in Paths |-> NoFile]

\* no function has been called on its own
NoCall == [fn |-> "none"]

FnInit ==
  /\ fnArgs = NoCall
  /\ fnRet = NoCall

InitRetry ==
  /\ RetryInit /\ EnvInit /\ epQuiescent = TRUE /\ epCmdActive = 0
  /\ WaitIdleInit /\ IdleFiles /\ LogInit /\ ChanIdle /\ SelInit /\ ColInit /\ FnInit /\ ConnIdle /\ RunIdle

NextRetry ==
  \/ \E v \in RetVals : RetryCallReturns(v) /\ UNCHANGED <<envVars, waitVars, fileVars, logVars, chanVars, selVars, colVars, fnVars, connVars, runVars>>
  \/ \E k \in ErrKinds : RetryCallRaises(k) /\ UNCHANGED <<envVars, waitVars, fileVars, logVars, chanVars, selVars, colVars, fnVars, connVars, runVars>>
  \/ RetryExhausted /\ UNCHANGED <<envVars, waitVars, fileVars, logVars, chanVars, selVars, colVars, fnVars, connVars, runVars>>

SpecRetry == InitRetry /\ [][NextRetry]_vars

(***************************************************************************)
(* Specification of wait_for_idle alone                                    *)
(***************************************************************************)
InitWait ==
  /\ RetryInit /\ EnvInit /\ WaitIdleInit /\ IdleFiles /\ LogInit
  /\ ChanIdle /\ SelInit /\ ColInit /\ FnInit /\ ConnIdle /\ RunIdle

WaitStart ==
  /\ wPc = "idle"
  /\ \E t \in TimeoutSet, p \in PollSet : wait_for_idle_enter(t, p)
  /\ UNCHANGED <<retryVars, fnVars, connVars, runVars, envVars, fileVars, logVars, chanVars, selVars, colVars>>

NextWait ==
  \/ WaitStart
  \/ WaitPoll /\ UNCHANGED <<retryVars, fnVars, connVars, runVars, epQuiescent, epCmdActive, fileVars, logVars, chanVars, selVars, colVars>>
  \/ WaitTick /\ UNCHANGED <<retryVars, fnVars, connVars, runVars, waitVars, fileVars, logVars, chanVars, selVars, colVars>>
  \/ wPc = "polling" /\ EndpointChange /\ UNCHANGED <<retryVars, fnVars, connVars, runVars, waitVars, fileVars, logVars, chanVars, selVars, colVars>>

SpecWait == InitWait /\ [][NextWait]_vars

(***************************************************************************)
(* Specification SpecLog: tool calls interleaved with the log files' life  *)
(***************************************************************************)
InitLog ==
  /\ RetryInit /\ EnvInit /\ epQuiescent = TRUE /\ epCmdActive = 0
  /\ WaitIdleInit /\ FileInit /\ LogInit /\ ChanIdle /\ SelInit /\ ColInit /\ FnInit /\ ConnIdle /\ RunIdle

LogFrame == UNCHANGED <<retryVars, fnVars, connVars, runVars, envVars, waitVars, chanVars, selVars, colVars>>

StartLogging ==
  /\ \E mode \in {"logfile", "lastprompt", "bogus"}, logfile_path \in {"", PathUser},
        reset \in BOOLEAN, applied \in BOOLEAN, readFailed \in BOOLEAN :
       start_logging(mode, logfile_path, reset, applied, readFailed)
  /\ LogFrame

StopLogging ==
  /\ \E id \in StreamIds, applied \in BOOLEAN : stop_logging(id, applied)
  /\ LogFrame

GetNewOutputSince ==
  /\ \E id \in StreamIds, cursor \in CursorArgs, max_bytes \in MaxBytesSet :
       get_new_output_since(id, cursor, max_bytes)
  /\ LogFrame

GetLastOutput == get_last_output /\ LogFrame

SendCommandNoWait == send_command_nowait /\ LogFrame

LogFileAppend == FileAppend /\ EnvOp /\ UNCHANGED <<streams, default_stream_id, nextId>> /\ LogFrame
LogFileShrink == FileShrink /\ EnvOp /\ UNCHANGED <<streams, default_stream_id, nextId>> /\ LogFrame
LogFileRemove == FileRemove /\ EnvOp /\ UNCHANGED <<streams, default_stream_id, nextId>> /\ LogFrame

NextLog ==
  \/ StartLogging
  \/ StopLogging
  \/ GetNewOutputSince
  \/ GetLastOutput
  \/ SendCommandNoWait
  \/ LogFileAppend
  \/ LogFileShrink
  \/ LogFileRemove

SpecLog == InitLog /\ [][NextLog]_vars

(***************************************************************************)
(* Specification SpecRead: read_new called on its own, and called again    *)
(* with the cursor it returned                                             *)
(***************************************************************************)
MaxRead == 3
ReadCursors == -1..(MaxRead + 1)

\* every content of at most MaxRead bytes
ReadFiles ==
  UNION {[1..n -> {Byte(k) : k \in {"x", "nl", "lead", "trail"}}] : n \in 0..MaxRead}

\* One logfile stream on the endpoint's log file, which may be missing; stream
\* id 2 is not registered.
InitRead ==
  /\ RetryInit /\ EnvInit /\ epQuiescent = TRUE /\ epCmdActive = 0
  /\ WaitIdleInit /\ ChanIdle /\ SelInit /\ ColInit /\ FnInit /\ ConnIdle /\ RunIdle
  /\ epLogFileName = PathAcad
  /\ epLogFileMode = 1
  /\ \E d \in ReadFiles, e \in BOOLEAN :
       files = [p \in Paths |-> IF p = PathAcad /\ (e \/ d # <<>>)
                                  THEN [exists |-> TRUE, data |-> d] ELSE NoFile]
  /\ streams = <<OutputStream(1, "logfile", PathAcad, 0, TRUE)>>
  /\ default_stream_id = 1
  /\ nextId = 2
  /\ lastOp = Op("none", NoId, NoRet)

ReadFrame == UNCHANGED <<retryVars, envVars, waitVars, fileVars, chanVars, selVars, colVars,
                         default_stream_id, nextId, connVars, runVars>>

\* state.streams.read_new(stream_id, cursor, max_bytes)
ReadNew ==
  /\ \E id \in StreamIds, cursor \in ReadCursors, max_bytes \in MaxBytesSet :
     \E r \in {read_new(streams, files, id, cursor, max_bytes)} :
       /\ fnArgs' = [fn |-> "read_new", id |-> id, cursor |-> cursor, max_bytes |-> max_bytes]
       /\ fnRet' = [fn |-> "read_new", r |-> r, repeat |-> FALSE, prev |-> NoRet]
       /\ streams' = streams_after_read(streams, id, r)
       /\ lastOp' = Op("read_new", id, r)
  /\ ReadFrame

\* read_new called again with the cursor the last call returned, and the same
\* max_bytes; the file has not changed in between.
ReadAgain ==
  /\ fnRet.fn = "read_new"
  /\ ~fnRet.repeat
  /\ ~fnRet.r.raised
  /\ \E r \in {read_new(streams, files, fnArgs.id, fnRet.r.new_cursor, fnArgs.max_bytes)} :
       /\ fnArgs' = [fnArgs EXCEPT !.cursor = fnRet.r.new_cursor]
       /\ fnRet' = [fn |-> "read_new", r |-> r, repeat |-> TRUE, prev |-> fnRet.r]
       /\ streams' = streams_after_read(streams, fnArgs.id, r)
       /\ lastOp' = Op("read_new", fnArgs.id, r)
  /\ ReadFrame

NextRead ==
  \/ ReadNew
  \/ ReadAgain

SpecRead == InitRead /\ [][NextRead]_vars

(***************************************************************************)
(* Specification SpecStop: stop_logging on a registry of MaxStop streams   *)
(***************************************************************************)
MaxStop == 3
StopIds == 1..MaxStop

\* The registry after MaxStop calls of start_logging, each in either mode: the
\* stream started last is the default.
InitStop ==
  /\ RetryInit /\ EnvInit /\ epQuiescent = TRUE /\ epCmdActive = 0
  /\ WaitIdleInit /\ ChanIdle /\ SelInit /\ ColInit /\ FnInit /\ ConnIdle /\ RunIdle
  /\ epLogFileName = PathAcad
  /\ epLogFileMode \in {0, 1}
  /\ files = [p \in Paths |-> IF p = PathAcad THEN [exists |-> TRUE, data |-> <<>>]
                                ELSE NoFile]
  /\ \E m \in [StopIds -> {"logfile", "lastprompt"}] :
       streams = [i \in StopIds |->
                    IF m[i] = "logfile" THEN OutputStream(i, "logfile", PathAcad, 0, TRUE)
                    ELSE OutputStream(i, "lastprompt", "", 0, FALSE)]
  /\ default_stream_id = MaxStop
  /\ nextId = MaxStop + 1
  /\ lastOp = Op("none", NoId, NoRet)

StopAny ==
  /\ \E id \in StopIds, applied \in BOOLEAN : stop_logging(id, applied)
  /\ LogFrame

NextStop == StopAny

SpecStop == InitStop /\ [][NextStop]_vars

(***************************************************************************)
(* Specification SpecExtract: _extract_mcp_json and                        *)
(* _extract_mcp_json_messages called on a text                             *)
(***************************************************************************)
MaxText == 5
Obj1 == Msg(Req1, "done", 0, 0, 0, TRUE)
Obj2 == Msg(Req2, "done", 0, 0, 0, TRUE)

\* the characters of the texts: a character that is no JSON, a newline, a
\* blank, the tag, a JSON value that is no object, and two objects
ExtractBytes ==
  {Byte("x"), NL, Byte("sp"), Byte("g"), Byte("v"), MsgByte("o", Obj1), MsgByte("o", Obj2)}

ExtractTexts == UNION {[1..n -> ExtractBytes] : n \in 0..MaxText}

InitExtract ==
  /\ RetryInit /\ EnvInit /\ epQuiescent = TRUE /\ epCmdActive = 0
  /\ WaitIdleInit /\ ChanIdle /\ SelInit /\ ColInit /\ FnInit /\ ConnIdle /\ RunIdle
  /\ IdleFiles /\ LogInit

ExtractFrame == UNCHANGED <<retryVars, envVars, waitVars, fileVars, logVars, chanVars,
                            selVars, colVars, connVars, runVars>>

\* _extract_mcp_json(text)
ExtractSingle ==
  /\ fnArgs = NoCall
  /\ \E text \in ExtractTexts :
       /\ fnArgs' = [fn |-> "_extract_mcp_json", text |-> text]
       /\ fnRet' = [fn |-> "_extract_mcp_json", r |-> extract_mcp_json(text)]
  /\ ExtractFrame

\* _extract_mcp_json_messages(text): no statement of it can raise
ExtractStream ==
  /\ fnArgs = NoCall
  /\ \E text \in ExtractTexts :
       /\ fnArgs' = [fn |-> "_extract_mcp_json_messages", text |-> text]
       /\ fnRet' = [fn |-> "_extract_mcp_json_messages",
                    r |-> [raised |-> FALSE, out |-> extract_mcp_json_messages(text)]]
  /\ ExtractFrame

NextExtract ==
  \/ ExtractSingle
  \/ ExtractStream

SpecExtract == InitExtract /\ [][NextExtract]_vars

(***************************************************************************)
(* Specification SpecStream: the emitter, the collector and the scripted   *)
(* call on the text of a sequence of tagged lines                          *)
(***************************************************************************)
MaxMsgs == 4
MaxEmit == 3

\* the objects the tagged lines carry: events of two requests, one of each
\* request with ok = false
StreamMsgs ==
  {Msg(Req1, "start", 0, 2, 0, TRUE), Msg(Req1, "done", 0, 0, 0, TRUE),
   Msg(Req1, "item_begin", 0, 0, 1, FALSE)}
  \cup {Msg(Req1, "item_begin", i, 0, h, TRUE) : i \in 0..1, h \in 1..2}
  \cup {Msg(Req2, "start", 0, 1, 0, TRUE), Msg(Req2, "item_begin", 0, 0, 2, TRUE),
        Msg(Req2, "done", 0, 0, 0, TRUE), Msg(Req2, "done", 0, 0, 0, FALSE)}

StreamSeqs(n) == UNION {[1..k -> StreamMsgs] : k \in 0..n}

\* the text the endpoint prints for a sequence of objects
RECURSIVE text_of(_)
text_of(msgs) == IF msgs = <<>> THEN <<>> ELSE emit_json(Head(msgs)) \o text_of(Tail(msgs))

\* _collect_selection_stream_lite on a text that is all there is to read: the
\* messages are handled in order; without a done the collection times out
collect_text(req, text) ==
  LET acc == handle_msgs(extract_mcp_json_messages(text), req, NoAcc)
  IN [raised |-> acc.raised, cause |-> acc.cause,
      out |-> IF acc.raised THEN NoOut ELSE collect_result(req, acc, ~acc.done, 0)]

\* _run_lisp_json, given the log text of run_lisp and the text of the logfile
\* tail: _extract_mcp_json of the text, of the tail when that raises; an
\* object with ok = false raises RuntimeError(error of the object)
run_lisp_json(text, tail) ==
  LET r1 == extract_mcp_json(text)
      r  == IF r1.raised THEN extract_mcp_json(tail) ELSE r1
  IN IF r.raised THEN [raised |-> TRUE, cause |-> NoMsg, obj |-> NoMsg]
     ELSE IF is_error(r.obj) THEN [raised |-> TRUE, cause |-> r.obj, obj |-> NoMsg]
     ELSE [raised |-> FALSE, cause |-> NoMsg, obj |-> r.obj]

InitStream == InitExtract

CollectStream ==
  /\ fnArgs = NoCall
  /\ \E msgs \in StreamSeqs(MaxMsgs), req \in {Req1} :
       /\ fnArgs' = [fn |-> "_collect_selection_stream_lite", req_id |-> req, msgs |-> msgs]
       /\ fnRet' = [fn |-> "_collect_selection_stream_lite", r |-> collect_text(req, text_of(msgs))]
  /\ ExtractFrame

RunLispJson ==
  /\ fnArgs = NoCall
  /\ \E msgs \in StreamSeqs(2), tail \in StreamSeqs(1) :
       /\ fnArgs' = [fn |-> "_run_lisp_json", msgs |-> msgs, tail |-> tail]
       /\ fnRet' = [fn |-> "_run_lisp_json", r |-> run_lisp_json(text_of(msgs), text_of(tail))]
  /\ ExtractFrame

\* (mcp-selection--emit-from-ss-lite req_id ss max_objects) on a selection set
\* of `total` entities
EmitFromSs ==
  /\ fnArgs = NoCall
  /\ \E req \in {Req1, Req2}, total \in 0..MaxEmit, mo \in -1..(MaxEmit + 1) :
       /\ fnArgs' = [fn |-> "emit", req_id |-> req, total |-> total, mo |-> mo]
       /\ fnRet' = [fn |-> "emit", r |-> emit_from_ss_lite(req, total, mo)]
  /\ ExtractFrame

MaxCmd == 4

\* the submitted texts: a character that is no line end, "\n" and "\r"
CmdTexts == UNION {[1..n -> {Byte("x"), NL, Byte("cr")}] : n \in 0..MaxCmd}

\* a variant that appends a newline to every text
ends_with_nl_never(cmd) == FALSE

\* cmd.endswith("\n")
ends_with_nl(cmd) == cmd # <<>> /\ cmd[Len(cmd)] = NL

\* bridge.send_command(command): the text given to doc.SendCommand
send_command_cmd(command) ==
  IF ~ends_with_nl(command) THEN command \o <<NL>> ELSE command

\* bridge.send_command(command) and the text the endpoint's SendCommand gets
BridgeSendCommand ==
  /\ fnArgs = NoCall
  /\ \E command \in CmdTexts :
       /\ fnArgs' = [fn |-> "bridge.send_command", command |-> command]
       /\ fnRet' = [fn |-> "bridge.send_command", cmd |-> send_command_cmd(command)]
  /\ ExtractFrame

NextStream ==
  \/ CollectStream
  \/ RunLispJson
  \/ EmitFromSs
  \/ BridgeSendCommand

SpecStream == InitStream /\ [][NextStream]_vars

(***************************************************************************)
(* Specification SpecCollect: the collector on a log read in pieces        *)
(***************************************************************************)
MaxLines == 2

\* The `while True` loop of _collect_selection_stream_lite over the texts its
\* reads return, in order; an empty text is a read that found nothing new (the
\* loop sleeps), and after the last read the timeout passes.  seen: the
\* objects handed to _handle_msgs so far.
RECURSIVE collect_loop(_, _, _, _, _)
collect_loop(req, reads, buf, acc, seen) ==
  IF reads = <<>> THEN [acc |-> acc, timed_out |-> TRUE, seen |-> seen]
  ELSE IF Head(reads) = <<>> THEN collect_loop(req, Tail(reads), buf, acc, seen)
  ELSE LET cl   == consume_complete_lines(buf \o Head(reads))
           msgs == extract_mcp_json_messages(join_lines(cl.lines))
           acc2 == handle_msgs(msgs, req, acc)
       IN IF acc2.raised \/ acc2.done
            THEN [acc |-> acc2, timed_out |-> FALSE, seen |-> seen \o msgs]
            ELSE collect_loop(req, Tail(reads), cl.rest, acc2, seen \o msgs)

\* _collect_selection_stream_lite(req_id, initial_text, cursor) with the texts
\* its reads return from the cursor on
collect_stream(req, initial_text, reads) ==
  LET msgs0 == IF initial_text = <<>> THEN <<>> ELSE extract_mcp_json_messages(initial_text)
      acc0  == handle_msgs(msgs0, req, NoAcc)
  IN IF acc0.raised \/ acc0.done
       THEN [acc |-> acc0, timed_out |-> FALSE, seen |-> msgs0]
       ELSE collect_loop(req, reads, <<>>, acc0, msgs0)

\* What follows the last tagged line in the log: nothing, or a newline.
Trailers == {<<>>, <<NL>>}

\* The endpoint printed the objects msgs and the trailer; the log block of the
\* dispatching send_command held the first k0 bytes of that text, the first
\* read of the collector the bytes up to k1, and its second read the rest.
CollectSplit ==
  /\ fnArgs = NoCall
  /\ \E msgs \in StreamSeqs(MaxLines), trailer \in Trailers :
     \E text \in {text_of(msgs) \o trailer} :
     \E k0 \in 0..Len(text) :
     \E k1 \in k0..Len(text) :
       /\ fnArgs' = [fn |-> "collect_split", req_id |-> Req1, msgs |-> msgs,
                     trailer |-> trailer, k0 |-> k0, k1 |-> k1]
       /\ fnRet' = [fn |-> "collect_split",
                    out |-> collect_stream(Req1, SubSeq(text, 1, k0),
                                           <<SubSeq(text, k0 + 1, k1),
                                             SubSeq(text, k1 + 1, Len(text))>>)]
  /\ ExtractFrame

NextCollect == CollectSplit

SpecCollect == InitExtract /\ [][NextCollect]_vars

\* The objects of a request among msgs, up to its first done or error.
RECURSIVE OfRequest(_, _)
OfRequest(msgs, req) ==
  IF msgs = <<>> THEN <<>>
  ELSE IF Head(msgs).req # req THEN OfRequest(Tail(msgs), req)
  ELSE IF Head(msgs).ev = "done" \/ ~Head(msgs).ok THEN <<Head(msgs)>>
  ELSE <<Head(msgs)>> \o OfRequest(Tail(msgs), req)

IsPrefix(p, q) == Len(p) <= Len(q) /\ SubSeq(q, 1, Len(p)) = p

\* The printed objects whose line is ended by a newline: all of them, but for
\* the last when nothing follows it.
EndedLines(msgs, trailer) ==
  IF trailer = <<>> /\ msgs # <<>> THEN SubSeq(msgs, 1, Len(msgs) - 1) ELSE msgs

\* C35: whatever the split of the log text over the log block of send_command
\* and the reads of the collector, the collector handles the tagged lines of
\* its request once each and in order: every line ended by a newline (up to the
\* done line) and no line twice.
C35_EachLineOnce ==
  fnArgs.fn = "collect_split"
    => /\ IsPrefix(OfRequest(EndedLines(fnArgs.msgs, fnArgs.trailer), fnArgs.req_id),
                   OfRequest(fnRet.out.seen, fnArgs.req_id))
       /\ IsPrefix(OfRequest(fnRet.out.seen, fnArgs.req_id),
                   OfRequest(fnArgs.msgs, fnArgs.req_id))

\* C36: when the done line of the request is wholly in the log and the
\* collector reads the log after that, the collection ends with done and
\* timed_out = false, also when nothing follows the done line.
C36_WrittenDoneIsConsumed ==
  (/\ fnArgs.fn = "collect_split"
   /\ fnArgs.k0 < fnArgs.k1
   /\ LET own == OfRequest(fnArgs.msgs, fnArgs.req_id)
      IN own # <<>> /\ own[Len(own)].ev = "done" /\ own[Len(own)].ok)
    => (~fnRet.out.timed_out /\ fnRet.out.acc.done)

(***************************************************************************)
(* Specification SpecConn: a new bridge, the environment's configuration   *)
(* and running endpoints, and calls of connect, ensure_connection,         *)
(* _get_acad_progids and the tools' heads                                  *)
(***************************************************************************)
MaxMajor == 24

\* AUTOCAD_MCP_TARGET_MAJOR: unset, "0", and a major
ConnTargets == {NoMajor, Major(0), Major(MaxMajor)}
\* the CurVer value: none, one already listed, one that is not
ConnAliases == {NoAlias, V(MaxMajor), V(OLDEST - 1)}
ConnConfs ==
  [target_major : ConnTargets, alias : ConnAliases, use_dispatch : BOOLEAN,
   allow_new : BOOLEAN, acad_exe : BOOLEAN]

\* endpoints: ACADVER "24.0", "23.1s (..)", "24" (no major.minor), and one
\* whose GetVariable raises
Inst24 == Inst(1, <<Num(MaxMajor), Dot, Num(0)>>, FALSE)
Inst23 == Inst(2, <<Num(MaxMajor - 1), Dot, Num(1), Txt>>, FALSE)
InstNoMinor == Inst(3, <<Num(MaxMajor)>>, FALSE)
InstFails == Inst(4, <<>>, TRUE)

\* the running endpoints by identity: none, one, and a first candidate before
\* the generic one
ConnRots ==
  {<< >>, [p \in {GENERIC} |-> Inst24], [p \in {GENERIC} |-> Inst23],
   [p \in {V(MaxMajor)} |-> Inst24]}
    \cup {[p \in {V(MaxMajor), GENERIC} |-> IF p = GENERIC THEN Inst24 ELSE first] :
            first \in {Inst23, InstNoMinor, InstFails}}

NoInstall == [progid |-> NoAlias, inst |-> NoInst]
Installs ==
  {NoInstall} \cup [progid : {V(MaxMajor), GENERIC},
                    inst : {Inst24, Inst23}]

\* What the environment does during a call: the identity Dispatch can create
\* and whether that starts a process; whether the launch-wait loop makes a
\* pass and the endpoints that run by then.
ConnEnvs ==
  {[installed |-> NoInstall, spawned |-> FALSE, waits |-> FALSE, rot2 |-> << >>]}
    \cup [installed : Installs \ {NoInstall}, spawned : BOOLEAN, waits : {FALSE},
          rot2 : {<< >>}]
    \cup [installed : {NoInstall}, spawned : {FALSE}, waits : {TRUE},
          rot2 : {[p \in {GENERIC} |-> Inst24], [p \in {V(MaxMajor)} |-> Inst24],
                  [p \in {V(MaxMajor)} |-> Inst23]}]

InitConn ==
  /\ RetryInit /\ EnvInit /\ epQuiescent = TRUE /\ epCmdActive = 0
  /\ WaitIdleInit /\ ChanIdle /\ SelInit /\ ColInit /\ FnInit /\ RunIdle
  /\ IdleFiles /\ LogInit
  /\ conf \in ConnConfs
  /\ rot \in ConnRots
  /\ bAcad = NoInst
  /\ bDoc = NoInst
  /\ bConnected = FALSE
  /\ epCalls = <<>>

ConnFrame == UNCHANGED <<retryVars, envVars, waitVars, fileVars, logVars, chanVars,
                         selVars, colVars, conf, runVars>>

Held == Bridge(bAcad, bDoc, bConnected, <<>>, FALSE)

Launched(b) == \E i \in 1..Len(b.calls) : b.calls[i].op = "Popen"

SetBridge(b, rot2) ==
  /\ bAcad' = b.acad
  /\ bDoc' = b.doc
  /\ bConnected' = b.connected
  /\ epCalls' = b.calls
  /\ rot' = IF Launched(b) /\ rot2 # << >> THEN rot2 ELSE rot

\* bridge.connect(), the first call on the new bridge
Connect ==
  /\ fnArgs = NoCall
  /\ \E e \in ConnEnvs :
    \E b \in {connect(conf, rot, e.installed, e.spawned, e.rot2, e.waits, Held)} :
      /\ SetBridge(b, e.rot2)
      /\ fnArgs' = [fn |-> "connect", rot |-> rot]
      /\ fnRet' = [fn |-> "connect", r |-> b.done]
      /\ ConnFrame

FirstOrAfterConnect == fnArgs = NoCall \/ fnArgs.fn = "connect"

\* bridge.ensure_connection(), on the new bridge or after connect()
EnsureConnection ==
  /\ FirstOrAfterConnect
  /\ \E e \in ConnEnvs, probeOk \in BOOLEAN :
    \E b \in {ensure_connection(conf, rot, e.installed, e.spawned, e.rot2, e.waits, probeOk, Held)} :
      /\ SetBridge(b, e.rot2)
      /\ fnArgs' = [fn |-> "ensure_connection", probeOk |-> probeOk, held |-> Held]
      /\ fnRet' = [fn |-> "ensure_connection", r |-> b.done]
      /\ ConnFrame

\* _get_acad_progids()
GetAcadProgids ==
  /\ fnArgs = NoCall
  /\ fnArgs' = [fn |-> "_get_acad_progids"]
  /\ fnRet' = [fn |-> "_get_acad_progids",
               progids |-> get_acad_progids(conf.target_major, conf.alias)]
  /\ epCalls' = <<>>
  /\ UNCHANGED <<rot, bAcad, bDoc, bConnected>>
  /\ ConnFrame

ConnTools == {"dict_keys", "dict_xrecord_set", "start_logging"}

\* The head of dict_keys, dict_xrecord_set and start_logging:
\* `_ensure_connected()`, then the check of the arguments.  malformed: an empty
\* dict_name or key, or a mode that is neither "logfile" nor "lastprompt".
ToolHead ==
  /\ FirstOrAfterConnect
  /\ \E e \in ConnEnvs, probeOk \in BOOLEAN :
    \E b \in {ensure_connection(conf, rot, e.installed, e.spawned, e.rot2, e.waits, probeOk, Held)} :
      \E tool \in ConnTools, malformed \in BOOLEAN :
        /\ SetBridge(b, e.rot2)
        /\ fnArgs' = [fn |-> tool, malformed |-> malformed]
        /\ fnRet' = [fn |-> tool,
                     raised |-> IF ~b.done THEN "RuntimeError"
                                ELSE IF malformed THEN "ValueError" ELSE "none"]
        /\ ConnFrame

NextConn ==
  \/ Connect
  \/ EnsureConnection
  \/ GetAcadProgids
  \/ ToolHead

SpecConn == InitConn /\ [][NextConn]_vars

\* C25: a call with malformed input (an empty dictionary name or key, an
\* unknown mode of start_logging) is rejected with a validation error before
\* any call to the endpoint is made.
C25_MalformedRejectedBeforeEndpoint ==
  (fnArgs.fn \in ConnTools /\ fnArgs.malformed)
    => (fnRet.raised = "ValueError" /\ epCalls = <<>>)

\* C26: connect never creates an endpoint instance by name: when no running
\* instance can be attached, the only fallback is the launch of the configured
\* executable followed by attaching.
C26_NeverCreatesByName ==
  fnArgs.fn = "connect"
    => \A i \in 1..Len(epCalls) : epCalls[i].op \in {"GetActiveObject", "Popen"}

PinnedMajorOf(inst) ==
  /\ inst # NoInst /\ ~inst.fails
  /\ conf.target_major.has /\ parse_acadver_major(inst.acadver) = conf.target_major

\* the endpoints that ran when the i-th call of connect was made
RotAtCall(i) ==
  IF \E j \in 1..(i - 1) : epCalls[j].op = "Popen" THEN rot ELSE fnArgs.rot

\* the i-th call attached to a running endpoint that is not of the pinned major
RejectedAt(i) ==
  /\ epCalls[i].op = "GetActiveObject"
  /\ RotOf(RotAtCall(i), epCalls[i].progid) # NoInst
  /\ ~PinnedMajorOf(RotOf(RotAtCall(i), epCalls[i].progid))

\* C27: with a pinned target major, connect returns true only with an endpoint
\* whose version variable parses to that major; a candidate whose version
\* mismatches or cannot be queried is rejected and the next candidate is tried.
C27_PinnedMajorOnly ==
  (fnArgs.fn = "connect" /\ conf.target_major.has)
    => /\ fnRet.r => (bConnected /\ bDoc = bAcad /\ PinnedMajorOf(bAcad))
       /\ \A i \in 1..Len(epCalls) :
            RejectedAt(i) =>
              LET progids == get_acad_progids(conf.target_major, conf.alias)
                  k == CHOOSE n \in 1..Len(progids) : progids[n] = epCalls[i].progid
              IN /\ i < Len(epCalls) \/ ~fnRet.r
                 /\ k < Len(progids) =>
                      (i < Len(epCalls)
                         /\ epCalls[i + 1] = Call("GetActiveObject", progids[k + 1]))

C27_Witness ==
  /\ fnArgs.fn = "connect" /\ conf.target_major.has /\ fnRet.r
  /\ \E i \in 1..Len(epCalls) : RejectedAt(i)

VersionedAt(L, i) == L[i].parts = 3 /\ L[i].v \in OLDEST..NEWEST

\* C28: the candidate list starts with the pinned-version identity when a
\* target major is pinned, lists the versioned identities from newest to
\* oldest, then the optional registry alias, and ends with the generic
\* identity, so the pinned candidate comes strictly before the generic one.
C28_CandidateOrder ==
  fnArgs.fn = "_get_acad_progids"
    => LET L == fnRet.progids
       IN /\ conf.target_major.has => L[1] = V(conf.target_major.v)
          /\ L[Len(L)] = GENERIC
          /\ \A i \in 1..(Len(L) - 1) : L[i] # GENERIC
          /\ \A v \in OLDEST..NEWEST : InSeq(V(v), L)
          /\ \A i, j \in 2..Len(L) :
               (i < j /\ VersionedAt(L, i) /\ VersionedAt(L, j)) => L[i].v > L[j].v
          /\ (conf.alias # NoAlias /\ ~VersionedAt(<<conf.alias>>, 1))
               => L[Len(L) - 1] = conf.alias

HeldHandle(h) == h.connected /\ h.acad # NoInst /\ h.doc # NoInst

Reacquires == \E i \in 1..Len(epCalls) : epCalls[i].op # "Name"

\* C29: ensure_connection is idempotent while the endpoint is live: with a
\* handle held and a passing liveness probe it returns true and leaves the
\* held handle as it is without attaching again; it re-acquires the handle
\* only when the probe fails or no handle is held.
C29_EnsureKeepsLiveHandle ==
  fnArgs.fn = "ensure_connection"
    => /\ (HeldHandle(fnArgs.held) /\ fnArgs.probeOk)
            => /\ fnRet.r
               /\ bAcad = fnArgs.held.acad /\ bDoc = fnArgs.held.doc /\ bConnected
               /\ ~Reacquires
       /\ Reacquires => (~fnArgs.probeOk \/ ~HeldHandle(fnArgs.held))

C29_Witness ==
  /\ fnArgs.fn = "ensure_connection"
  /\ HeldHandle(fnArgs.held) /\ fnArgs.probeOk
  /\ fnRet.r /\ epCalls = <<Call("Name", GENERIC)>>

(***************************************************************************)
(* Specification SpecSend: one call of the send_command tool against an    *)
(* endpoint that changes state on its own                                  *)
(***************************************************************************)
\* a variant that waits for idle on every call
send_waits_always(wait) == TRUE

\* `if wait:` of send_command
send_waits(wait) == wait

\* The result of send_command once `completed` and `needs_input` are known:
\* the log block is read from the default stream.
send_command_return(completed, needs_input) ==
  \E r \in {send_command_log} :
    /\ streams' = send_command_streams(r)
    /\ lastOp' = Op("send_command", default_stream_id, r)
    /\ fnRet' = [fn |-> "send_command", completed |-> completed,
                 needs_input |-> needs_input, log |-> r]
    /\ UNCHANGED <<default_stream_id, nextId>>

InitSend ==
  /\ RetryInit /\ EnvInit /\ WaitIdleInit /\ IdleFiles /\ LogInit
  /\ ChanIdle /\ SelInit /\ ColInit /\ FnInit /\ ConnIdle /\ RunIdle

SendFrame == UNCHANGED <<retryVars, fileVars, selVars, colVars, connVars, runVars, epOut, epImplied>>

\* send_command(command, wait, timeout_sec, poll_interval_sec) up to its
\* return (wait = False) or up to the entry of wait_for_idle
SendStart ==
  /\ fnArgs = NoCall
  /\ \E wait \in BOOLEAN, t \in TimeoutSet, p \in PollSet :
       /\ fnArgs' = [fn |-> "send_command", wait |-> wait, timeout_sec |-> t]
       /\ SendCommand(Script("prompt", Req1, -1))
       /\ IF send_waits(wait)
            THEN /\ wait_for_idle_enter(t, p)
                 /\ UNCHANGED <<logVars, fnRet>>
            ELSE /\ send_command_return(TRUE, FALSE)
                 /\ UNCHANGED waitVars
  /\ UNCHANGED now
  /\ SendFrame

\* send_command after wait_for_idle returned
SendFinish ==
  /\ fnArgs # NoCall /\ fnRet = NoCall
  /\ wPc = "returned"
  /\ send_command_return(wResult.completed, wResult.needs_input)
  /\ UNCHANGED <<fnArgs, waitVars, envVars, epScripts>>
  /\ SendFrame

NextSend ==
  \/ SendStart
  \/ SendFinish
  \/ WaitPoll /\ UNCHANGED <<retryVars, fnVars, connVars, runVars, epQuiescent, epCmdActive, fileVars, logVars, chanVars, selVars, colVars>>
  \/ WaitTick /\ UNCHANGED <<retryVars, fnVars, connVars, runVars, waitVars, fileVars, logVars, chanVars, selVars, colVars>>
  \/ EndpointChange /\ UNCHANGED <<retryVars, fnVars, connVars, runVars, waitVars, fileVars, logVars, chanVars, selVars, colVars>>

SpecSend == InitSend /\ [][NextSend]_vars

\* C33: send_command with wait = false polls nothing and returns right after
\* the send with completed = true and needs_input = false, whatever the state
\* of the endpoint.
C33_NoWaitReturnsAtOnce ==
  (fnArgs.fn = "send_command" /\ ~fnArgs.wait)
    => /\ fnRet.fn = "send_command"
       /\ fnRet.completed /\ ~fnRet.needs_input
       /\ wPc = "idle" /\ wPoll = NoPoll

C33_Witness ==
  /\ fnArgs.fn = "send_command" /\ ~fnArgs.wait
  /\ fnRet.fn = "send_command" /\ fnRet.completed
  /\ ~epQuiescent /\ epCmdActive # 0
  /\ epScripts # <<>>

(***************************************************************************)
(* Specification SpecXrec: pairs written with the typed-value generator    *)
(* and read back through the JSON the dictionary library emits             *)
(***************************************************************************)
MaxPairs == 2

\* Python values; a real is kept as twice its value (halves are exact), the
\* characters of a string are "x", the double quote "q" and the backslash "bs"
PyStr(str) == [t |-> "str", s |-> str, n |-> 0, b |-> FALSE, l |-> <<>>]
PyInt(n) == [t |-> "int", s |-> <<>>, n |-> 2 * n, b |-> FALSE, l |-> <<>>]
PyReal(twice) == [t |-> "real", s |-> <<>>, n |-> twice, b |-> FALSE, l |-> <<>>]
PyBool(b) == [t |-> "bool", s |-> <<>>, n |-> 0, b |-> b, l |-> <<>>]
PyNone == [t |-> "none", s |-> <<>>, n |-> 0, b |-> FALSE, l |-> <<>>]
PyList(l) == [t |-> "list", s |-> <<>>, n |-> 0, b |-> FALSE, l |-> l]

\* AutoLISP values: T, nil (also the empty list), STR, INT, REAL, LIST
LispT == [t |-> "T", s |-> <<>>, n |-> 0, l |-> <<>>]
LispNil == [t |-> "nil", s |-> <<>>, n |-> 0, l |-> <<>>]
LispStr(str) == [t |-> "STR", s |-> str, n |-> 0, l |-> <<>>]
LispInt(twice) == [t |-> "INT", s |-> <<>>, n |-> twice, l |-> <<>>]
LispReal(twice) == [t |-> "REAL", s |-> <<>>, n |-> twice, l |-> <<>>]
LispList(l) == IF l = <<>> THEN LispNil ELSE [t |-> "LIST", s |-> <<>>, n |-> 0, l |-> l]

\* lisp_quote_string(s): a backslash before every backslash and double quote
RECURSIVE lisp_quote_string(_)
lisp_quote_string(str) ==
  IF str = <<>> THEN <<>>
  ELSE (IF Head(str) \in {"q", "bs"} THEN <<"bs", Head(str)>> ELSE <<Head(str)>>)
         \o lisp_quote_string(Tail(str))

\* the string a literal with these characters between its quotes denotes, for
\* the reader of AutoLISP and for json.loads: a backslash takes the next character
RECURSIVE unescape(_)
unescape(str) ==
  IF str = <<>> THEN <<>>
  ELSE IF Head(str) = "bs" /\ Len(str) > 1
    THEN <<str[2]>> \o unescape(Tail(Tail(str)))
  ELSE <<Head(str)>> \o unescape(Tail(str))

\* The value of the literal _lisp_typed_values writes for `val`: a string
\* literal, T / nil for a bool, str(val) for a number, "(" + floats + ")" for
\* a list of numbers, nil for None
lisp_typed_value(val) ==
  IF val.t = "str" THEN LispStr(unescape(lisp_quote_string(val.s)))
  ELSE IF val.t = "bool" THEN (IF val.b THEN LispT ELSE LispNil)
  ELSE IF val.t = "int" THEN LispInt(val.n)
  ELSE IF val.t = "real" THEN LispReal(val.n)
  ELSE IF val.t = "list" THEN LispList([j \in 1..Len(val.l) |-> LispReal(val.l[j].n)])
  ELSE LispNil

\* _lisp_typed_values(values): (list (cons code v) ...)
lisp_typed_values(values) ==
  [j \in 1..Len(values) |-> [code |-> values[j].code, v |-> lisp_typed_value(values[j].value)]]

\* the test of mcp--xrec-filter-pairs on a pair's code
xrec_keeps(code) == code >= 1 /\ code \notin {5, 100, 102, 280, 330, 360}

\* mcp--xrec-filter-pairs
xrec_filter_pairs(pairs) == SelectSeq(pairs, LAMBDA pr : xrec_keeps(pr.code))

\* JSON values as json.loads gives them: a number is one value whether it was
\* written as integer or as real
JNum(twice) == [t |-> "num", s |-> <<>>, n |-> twice, b |-> FALSE, l |-> <<>>]
JArr(l) == [t |-> "list", s |-> <<>>, n |-> 0, b |-> FALSE, l |-> l]

\* mcp--json-escape read back by json.loads
json_escape(str) == lisp_quote_string(str)

\* json.loads of mcp--json-value(v): the cond takes T, then nil, then the
\* symbol MCPNULL, then STR, INT, REAL, LIST
json_value(v) ==
  IF v.t = "T" THEN PyBool(TRUE)
  ELSE IF v.t = "nil" THEN PyBool(FALSE)
  ELSE IF v.t = "MCPNULL" THEN PyNone
  ELSE IF v.t = "STR" THEN PyStr(unescape(json_escape(v.s)))
  ELSE IF v.t \in {"INT", "REAL"} THEN JNum(v.n)
  ELSE JArr([j \in 1..Len(v.l) |-> JNum(v.l[j].n)])

\* json.loads of mcp--json-xrec-values(pairs): [[code, value], ...]
json_xrec_values(pairs) ==
  [j \in 1..Len(pairs) |-> [code |-> pairs[j].code, value |-> json_value(pairs[j].v)]]

\* dict_xrecord_set(values) followed by dict_xrecord_get: the record holds the
\* pairs of the typed list, mcp--xrec-read filters what entget gives
xrecord_write_read(values) ==
  json_xrec_values(xrec_filter_pairs(lisp_typed_values(values)))

XrecCodes == {1, 280}
XrecValues ==
  {PyStr(<<>>), PyStr(<<"x">>), PyStr(<<"q", "bs">>), PyInt(0), PyInt(3), PyReal(1),
   PyReal(4), PyList(<<>>), PyList(<<PyInt(1), PyReal(1)>>), PyBool(TRUE), PyBool(FALSE),
   PyNone}
XrecPairs == [code : XrecCodes, value : XrecValues]
XrecLists == UNION {[1..n -> XrecPairs] : n \in 0..MaxPairs}

\* Python's ==: numbers by value (1 == 1.0), lists by their elements
PyNumber(v) == v.t \in {"int", "real", "num"}
PySame(a, b) ==
  IF PyNumber(a) /\ PyNumber(b) THEN a.n = b.n
  ELSE IF a.t = "list" /\ b.t = "list"
    THEN Len(a.l) = Len(b.l) /\ \A j \in 1..Len(a.l) : a.l[j].n = b.l[j].n
  ELSE a = b

XrecWriteRead ==
  /\ fnArgs = NoCall
  /\ \E values \in XrecLists :
       /\ fnArgs' = [fn |-> "xrecord", values |-> values]
       /\ fnRet' = [fn |-> "xrecord", values |-> xrecord_write_read(values)]
  /\ ExtractFrame

NextXrec == XrecWriteRead

SpecXrec == InitExtract /\ [][NextXrec]_vars

\* C32: pairs whose values are strings, integers, reals, numeric lists,
\* booleans or the null marker, written through the typed-value generator and
\* read back through the emitted JSON, come back with the same codes and
\* values in the same order.
C32_RoundTrip ==
  fnArgs.fn = "xrecord"
    => /\ Len(fnRet.values) = Len(fnArgs.values)
       /\ \A j \in 1..Len(fnArgs.values) :
            j <= Len(fnRet.values)
              => /\ fnRet.values[j].code = fnArgs.values[j].code
                 /\ PySame(fnRet.values[j].value, fnArgs.values[j].value)

(***************************************************************************)
(* Specification SpecSlice: send_command reads a growing log               *)
(***************************************************************************)
MaxGrow == 4
MaxCalls == 3

\* The default stream is a logfile stream on the endpoint's log file, started
\* with reset (cursor 0) or without (cursor at the end of the file).
InitSlice ==
  /\ RetryInit /\ EnvInit /\ WaitIdleInit /\ ChanIdle /\ SelInit /\ ColInit
  /\ FnInit /\ ConnIdle /\ RunIdle
  /\ epLogFileName = PathAcad
  /\ epLogFileMode = 1
  /\ \E d \in {<<>>, <<Byte("x")>>, <<Byte("x"), NL>>} :
       files = [p \in Paths |-> IF p = PathAcad THEN [exists |-> TRUE, data |-> d]
                                ELSE NoFile]
  /\ \E reset \in BOOLEAN :
       streams = <<OutputStream(1, "logfile", PathAcad,
                                IF reset THEN 0 ELSE Len(files[PathAcad].data), TRUE)>>
  /\ default_stream_id = 1
  /\ nextId = 2
  /\ lastOp = Op("start_logging", 1, NoRet)

\* The endpoint appends to its log file.
SliceAppend ==
  /\ \E c \in Chunks :
       /\ Len(files[PathAcad].data) + Len(c) <= MaxGrow
       /\ files' = [files EXCEPT ![PathAcad].data = @ \o c]
  /\ UNCHANGED <<epLogFileName, epLogFileMode, logVars, fnVars>>
  /\ UNCHANGED <<retryVars, envVars, waitVars, chanVars, selVars, colVars, connVars, runVars>>

\* send_command(command, wait = False): the log block of the call joins the
\* log blocks of the earlier calls; start: the stream's cursor before the
\* first call; size: the size of the file when the call read it.
SliceSend ==
  /\ Len(IF fnRet = NoCall THEN <<>> ELSE fnRet.logs) < MaxCalls
  /\ send_command_nowait
  /\ \E r \in {send_command_log} :
       /\ fnArgs' = IF fnArgs = NoCall
                      THEN [fn |-> "send_command", start |-> streams[1].cursor]
                      ELSE fnArgs
       /\ fnRet' = [fn |-> "send_command",
                    logs |-> (IF fnRet = NoCall THEN <<>> ELSE fnRet.logs)
                               \o <<[text |-> r.text, cursor |-> r.new_cursor,
                                     size |-> Len(files[PathAcad].data)]>>]
  /\ UNCHANGED <<retryVars, envVars, waitVars, chanVars, selVars, colVars, connVars, runVars>>

NextSlice ==
  \/ SliceAppend
  \/ SliceSend

SpecSlice == InitSlice /\ [][NextSlice]_vars

\* The cursor before the i-th call: the cursor the call before it returned.
SliceFrom(i) == IF i = 1 THEN fnArgs.start ELSE fnRet.logs[i - 1].cursor

\* C37: with send_command the only reader of the default logfile stream and a
\* file that only grows, the log text of each call is the text of the bytes
\* from the cursor the call before it returned up to the end of the file as
\* the call found it (at most 65536 bytes): the slices follow one another
\* without gap or overlap, and the stored cursor is the end of the last one.
C37_ConsecutiveSlices ==
  fnRet # NoCall =>
    /\ \A i \in 1..Len(fnRet.logs) :
         /\ SliceFrom(i) <= fnRet.logs[i].cursor
         /\ fnRet.logs[i].cursor = Min(fnRet.logs[i].size, SliceFrom(i) + SEND_MAX_BYTES)
         /\ fnRet.logs[i].text =
              decode(SubSeq(files[PathAcad].data, SliceFrom(i) + 1, fnRet.logs[i].cursor))
    /\ streams[1].cursor = fnRet.logs[Len(fnRet.logs)].cursor

C37_Witness ==
  /\ fnRet # NoCall
  /\ Len(fnRet.logs) = 3
  /\ fnArgs.start = 1
  /\ fnRet.logs[1].text = <<NL>> /\ fnRet.logs[1].cursor = 2
  /\ fnRet.logs[2].text = <<>> /\ fnRet.logs[2].cursor = 2
  /\ fnRet.logs[3].text = <<Byte("C")>> /\ fnRet.logs[3].cursor = 4

(***************************************************************************)
(* Specification SpecRun: two dict_xrecord_set calls on one key            *)
(***************************************************************************)
\* The object mcp-xrecord-set prints: {"ok":true,"written":true}, or
\* {"ok":false,"error":"Key already exists"}.  The texts of two calls are the
\* same; i records the call whose script printed the object.
WrittenMsg(o) == Msg(NoReq, "written", o, 0, 0, TRUE)
KeyExistsMsg(o) == Msg(NoReq, "error", o, 0, 0, FALSE)

XrecScript(o, overwrite) == [kind |-> "mcp-xrecord-set", req |-> o, overwrite |-> overwrite]

\* (mcp-xrecord-set dictName key values overwrite) on the stored record.  made:
\* entmakex gave an entity; when it gives nil, dictadd fails and the script
\* ends with an error message and without a tagged line.
xrecord_set(store, o, overwrite, made) ==
  IF store.has /\ ~overwrite
    THEN [store |-> store, out |-> emit_json(KeyExistsMsg(o))]
  ELSE IF made
    THEN [store |-> NewRec(o), out |-> emit_json(WrittenMsg(o))]
  ELSE [store |-> NoRec, out |-> <<NL, Byte("x")>>]

\* The `finally` block of _run_lisp_json: stop_logging(temp_stream_id) when a
\* temp stream was made; applied, connected as in sel_finally.
release_temp(temp, ss, d, applied, connected) ==
  IF temp # NoId /\ connected /\ HasStream(ss, temp)
    THEN LET s   == GetStream(ss, temp)
             ss2 == stop_streams(ss, temp)
             d2  == stop_default(ss, d, temp)
             remaining_logfile == HasDefault(ss2, d2) /\ GetStream(ss2, d2).mode = "logfile"
         IN [streams |-> ss2, default |-> d2,
             mode |-> IF s.mode = "logfile" /\ s.started_by_server /\ ~remaining_logfile
                         /\ applied
                        THEN 0 ELSE epLogFileMode]
    ELSE [streams |-> ss, default |-> d, mode |-> epLogFileMode]

\* The streams registered before the calls: none, one or two, of either mode,
\* any of them the default; the endpoint logs to its log file or does not.
PriorStream(id, mode) ==
  OutputStream(id, mode, IF mode = "logfile" THEN PathAcad ELSE "", 0, mode = "logfile")
PriorRegistries ==
  {<<>>}
    \cup {<<PriorStream(MaxStarts + 1, m)>> : m \in {"lastprompt", "logfile"}}
    \cup {<<PriorStream(MaxStarts + 1, m1), PriorStream(MaxStarts + 2, m2)>> :
            m1 \in {"lastprompt", "logfile"}, m2 \in {"lastprompt", "logfile"}}

InitRun ==
  /\ RetryInit /\ EnvInit /\ WaitIdleInit /\ ChanIdle /\ SelInit /\ ColInit
  /\ FnInit /\ ConnIdle
  /\ epLogFileName = PathAcad
  /\ epLogFileMode \in {0, 1}
  /\ files = [p \in Paths |-> IF p = PathAcad THEN [exists |-> TRUE, data |-> <<>>]
                              ELSE NoFile]
  /\ streams \in PriorRegistries
  /\ default_stream_id \in
       IF streams = <<>> THEN {NoId} ELSE {streams[j].stream_id : j \in 1..Len(streams)}
  /\ nextId = 1
  /\ lastOp = Op("none", NoId, NoRet)
  /\ runOps = [o \in RunIds |-> NoRun]
  /\ xStore \in {NoRec, OldRec}

RunFrame == UNCHANGED <<retryVars, waitVars, selVars, colVars, fnVars, connVars, now>>

\* dict_xrecord_set up to the wait of run_lisp: _ensure_logfile_stream, then
\* the script goes to the endpoint.  The second call begins after the first
\* has begun.
RunBegin(o) ==
  /\ runOps[o].pc = "idle"
  /\ o = 2 => runOps[1].pc # "idle"
  /\ \E overwrite \in BOOLEAN :
       /\ IF DefaultIsLogfile(streams, default_stream_id)
            THEN /\ runOps' = [runOps EXCEPT ![o] =
                      [@ EXCEPT !.pc = "sent", !.temp = NoId, !.relied = default_stream_id,
                                !.d0 = default_stream_id, !.x0 = xStore,
                                !.overwrite = overwrite,
                                !.after = \A o2 \in RunIds \ {o} : runOps[o2].pc = "done"]]
                 /\ UNCHANGED <<logVars, fileVars>>
            ELSE /\ \E applied \in BOOLEAN, readFailed \in BOOLEAN :
                      start_logging("logfile", "", FALSE, applied, readFailed)
                 /\ runOps' = [runOps EXCEPT ![o] =
                      [@ EXCEPT !.pc = "sent", !.temp = nextId, !.relied = NoId,
                                !.d0 = default_stream_id, !.x0 = xStore,
                                !.overwrite = overwrite,
                                !.after = \A o2 \in RunIds \ {o} : runOps[o2].pc = "done"]]
       /\ SendCommand(XrecScript(o, overwrite))
  /\ UNCHANGED <<xStore, epOut, epImplied>>
  /\ RunFrame

\* The endpoint runs the oldest script.
RunEndpoint ==
  /\ epScripts # <<>>
  /\ \E made \in BOOLEAN :
       \E r \in {xrecord_set(xStore, Head(epScripts).req, Head(epScripts).overwrite, made)} :
          /\ xStore' = r.store
          /\ epOut' = epOut \o r.out
  /\ epScripts' = Tail(epScripts)
  /\ UNCHANGED <<runOps, epImplied, logVars, fileVars, envVars>>
  /\ UNCHANGED <<retryVars, waitVars, selVars, colVars, fnVars, connVars>>

RunFlush ==
  /\ EndpointFlush
  /\ UNCHANGED <<runOps, xStore, logVars, envVars>>
  /\ UNCHANGED <<retryVars, waitVars, selVars, colVars, fnVars, connVars>>

\* _run_lisp_json after wait_for_idle of send_command returned (the endpoint
\* was idle, or timeout_sec passed): the log block is read, the object is
\* taken from it or from the tail of the default stream's file, and the
\* `finally` block runs.  settled: the endpoint had run every script and its
\* output was written when the log was read.
RunRead(o) ==
  /\ runOps[o].pc = "sent"
  /\ \E applied \in BOOLEAN, connected \in BOOLEAN :
     \E r \in {send_command_log} :
     \E ss \in {send_command_streams(r)} :
     \E tail \in {IF HasDefault(ss, default_stream_id)
                    THEN read_tail(ss, files, default_stream_id) ELSE <<>>} :
     \E res \in {run_lisp_json(IF r.raised THEN <<>> ELSE r.text, tail)} :
     \E rel \in {release_temp(runOps[o].temp, ss, default_stream_id, applied, connected)} :
        /\ streams' = rel.streams
        /\ default_stream_id' = rel.default
        /\ epLogFileMode' = rel.mode
        /\ runOps' = [runOps EXCEPT ![o] =
             [@ EXCEPT !.pc = "done", !.result = res,
                       !.settled = epScripts = <<>> /\ epOut = <<>>]]
  /\ lastOp' = Op("send_command", default_stream_id, NoRet)
  /\ UNCHANGED <<nextId, files, epLogFileName, xStore, chanVars, envVars>>
  /\ UNCHANGED <<retryVars, waitVars, selVars, colVars, fnVars, connVars>>

NextRun ==
  \/ \E o \in RunIds : RunBegin(o)
  \/ RunEndpoint
  \/ RunFlush
  \/ \E o \in RunIds : RunRead(o)

SpecRun == InitRun /\ [][NextRun]_vars

\* The call o ran with no other call in progress: the other one had not begun
\* when it returned, or had returned when it began.
Alone(o) == IF o = 1 THEN runOps[2].pc = "idle" ELSE runOps[2].after
Returned(o) == runOps[o].pc = "done" /\ Alone(o)
\* Every script sent so far had run, and its output was in the log, when the
\* call o read the log (and when the call before it did).
Settled(o) == runOps[o].settled /\ (o = 2 => runOps[1].settled)

\* C38: after a call that made a temp logfile stream and released it, the
\* default stream is the one that was the default before the call.
C38_DefaultRestored ==
  \A o \in RunIds :
    (Returned(o) /\ runOps[o].temp # NoId /\ ~HasStream(streams, runOps[o].temp))
      => default_stream_id = runOps[o].d0

\* C39: while a call that found a default logfile stream and relies on it is
\* running, that stream stays registered.
C39_ReliedStreamStays ==
  \A o \in RunIds :
    (runOps[o].pc = "sent" /\ runOps[o].relied # NoId)
      => HasStream(streams, runOps[o].relied)

\* C34: the object a call returns was printed by that call's own script.
C34_OwnPayload ==
  \A o \in RunIds :
    (Returned(o) /\ Settled(o) /\ ~runOps[o].result.raised)
      => runOps[o].result.obj.i = o

\* C31: a call returns after ok:true with its record stored, or raises and
\* the stored record is the one from before the call.
C31_AllOrNothing ==
  \A o \in RunIds :
    (Returned(o) /\ Settled(o))
      => IF runOps[o].result.raised
           THEN xStore = runOps[o].x0
           ELSE runOps[o].result.obj.ok /\ xStore = NewRec(o)


(***************************************************************************)
(* Specification SpecSel: one selection call against a running endpoint    *)
(***************************************************************************)
\* Before the call: no stream, a lastprompt stream, or a logfile stream on the
\* endpoint's log file with logging on.
SelStreamsInit ==
  /\ epLogFileName = PathAcad
  /\ files = [p \in Paths |-> IF p = PathAcad
                                 THEN [exists |-> TRUE, data |-> <<Byte("x")>>]
                                 ELSE NoFile]
  /\ lastOp = Op("none", NoId, NoRet)
  /\ \/ /\ streams = <<>>
        /\ default_stream_id = NoId
        /\ nextId = 1
        /\ epLogFileMode = 0
     \/ /\ streams = <<OutputStream(1, "lastprompt", "", 0, FALSE)>>
        /\ default_stream_id = 1
        /\ nextId = 2
        /\ epLogFileMode = 0
     \/ /\ streams = <<OutputStream(1, "logfile", PathAcad, Len(files[PathAcad].data), TRUE)>>
        /\ default_stream_id = 1
        /\ nextId = 2
        /\ epLogFileMode = 1

InitSel ==
  /\ RetryInit /\ EnvInit /\ epQuiescent = TRUE /\ epCmdActive = 0
  /\ WaitIdleInit /\ SelStreamsInit
  /\ ChanInit /\ SelInit /\ ColInit /\ FnInit /\ ConnIdle /\ RunIdle

SelWaitPoll ==
  /\ sPc = "wait1"
  /\ WaitPoll
  /\ UNCHANGED <<retryVars, fnVars, connVars, runVars, epQuiescent, epCmdActive, fileVars, logVars, chanVars, selVars, colVars>>

SelWaitTick ==
  /\ sPc = "wait1"
  /\ WaitTick
  /\ UNCHANGED <<retryVars, fnVars, connVars, runVars, waitVars, fileVars, logVars, chanVars, selVars, colVars>>

SelCollectTick ==
  /\ CollectTick
  /\ UNCHANGED <<retryVars, fnVars, connVars, runVars, waitVars, fileVars, logVars, chanVars, selVars, colVars>>

\* The endpoint's state is read by wait_for_idle and by the CMDACTIVE check
\* before the prompt: it changes where one of them is about to read it.
SelEndpointChange ==
  /\ sPc \in {"wait1", "decide"}
  /\ EndpointChange
  /\ UNCHANGED <<retryVars, fnVars, connVars, runVars, waitVars, fileVars, logVars, chanVars, selVars, colVars>>

SelEndpointRun ==
  /\ EndpointRun
  /\ UNCHANGED <<retryVars, fnVars, connVars, runVars, envVars, waitVars, fileVars, logVars, selVars, colVars>>

SelEndpointFlush ==
  /\ sPc # "done"
  /\ EndpointFlush
  /\ UNCHANGED <<retryVars, fnVars, connVars, runVars, envVars, waitVars, logVars, selVars, colVars>>

NextSel ==
  \/ SelectionStart
  \/ SelWaitPoll
  \/ SelWaitTick
  \/ SelAfterWait
  \/ CollectPoll
  \/ SelCollectTick
  \/ SelDecide
  \/ SelFinish
  \/ SelEndpointChange
  \/ SelEndpointRun
  \/ SelEndpointFlush

SpecSel == InitSel /\ [][NextSel]_vars

\* The server's thread keeps running and the clock keeps advancing.
SelFairness ==
  /\ WF_vars(SelWaitPoll)
  /\ WF_vars(SelWaitTick)
  /\ WF_vars(SelAfterWait)
  /\ WF_vars(CollectPoll)
  /\ WF_vars(SelCollectTick)
  /\ WF_vars(SelDecide)
  /\ WF_vars(SelFinish)

\* the call finds no stream registered and makes its own temporary stream
InitSelLive == InitSel /\ streams = <<>>

SpecSelLive == InitSelLive /\ [][NextSel]_vars /\ SelFairness

(***************************************************************************)
(* Claims                                                                  *)
(***************************************************************************)
\* selection dispatches the prompt script in this step
PromptDispatched == sPc = "decide" /\ Len(sSent') > Len(sSent)

\* C1: selection dispatches the prompt script only when the implied phase did
\* not time out and returned a count of zero.
C1_PromptOnlyAfterEmptyImplied ==
  [][PromptDispatched =>
       /\ ~cTimedOut
       /\ collect_result(cReq, cAcc, cTimedOut, cCur).count = 0]_vars

\* C2: selection dispatches the prompt script only while the endpoint's
\* command-active counter is zero.
C2_PromptOnlyWhenCommandIdle ==
  [][PromptDispatched => epCmdActive = 0]_vars

\* The callee-busy rejection: a com_error carrying RPC_E_CALL_REJECTED in its
\* hresult, or in args[0] when it has no hresult.
BusyRejection(kind) ==
  /\ kind.com
  /\ \/ kind.hasHr /\ kind.hr = RPC_E_CALL_REJECTED
     \/ ~kind.hasHr /\ kind.argInt /\ kind.arg0 = RPC_E_CALL_REJECTED

\* C3: com_retry makes another attempt (and sleeps) only after a failure that is
\* the callee-busy rejection; a failure of any other kind is raised by the very
\* attempt that met it, with no sleep after it.
C3_RetryOnlyBusy ==
  /\ (rPc = "loop" /\ rCalls > 0) => (rLast.isErr /\ BusyRejection(rLast.kind))
  /\ rPc = "loop" => rSleeps = rCalls
  /\ (rPc = "raised" /\ ~BusyRejection(rOut.err.kind)) =>
        /\ rOut.err.at = rCalls
        /\ rSleeps = rCalls - 1

C3_Witness ==
  /\ rPc = "raised"
  /\ rOut.err.kind.com
  /\ ~BusyRejection(rOut.err.kind)
  /\ rCalls > 1

\* C4: com_retry calls fn at most 15 times; it returns as soon as a call
\* succeeds, with that call's result; a busy rejection reaches the caller only
\* when all 15 attempts were rejected, and it is the 15th attempt's error.
C4_AtMostRetries ==
  /\ rCalls <= retries
  /\ rPc = "returned" => /\ rOut.kind = "return"
                         /\ rOut.val \in RetVals
                         /\ rLast.at < rCalls
                         /\ rSleeps = rCalls - 1
  /\ (rPc = "raised" /\ BusyRejection(rOut.err.kind)) =>
        /\ rCalls = retries
        /\ rOut.err.at = retries
  /\ (rPc = "loop" /\ rCalls = retries) => rLast.isErr

C4_Witness ==
  /\ rPc = "raised"
  /\ rCalls = retries
  /\ BusyRejection(rOut.err.kind)
  /\ rOut.err.at = retries

\* C5: wait_for_idle returns completed = true only from a poll that read the
\* quiescent flag as true and the command-active counter as zero.
C5_IdleNeedsBoth ==
  wResult.completed =>
    /\ wPc = "returned"
    /\ ~wPoll.stateFailed /\ wPoll.epQuiescent
    /\ ~wPoll.readFailed /\ wPoll.epCmdActive = 0

C5_Witness ==
  /\ wResult.completed
  /\ wPoll.n >= 2

\* C6: a wait_for_idle that gives up on timeout returns completed = false and
\* needs_input = (the counter of its last poll is nonzero); it gives up only
\* once the timeout has elapsed.
C6_TimeoutNeedsInput ==
  (wPc = "returned" /\ ~wResult.completed) =>
    /\ wResult.timedOut
    /\ now - wT0 >= wTimeout
    /\ wResult.needs_input = (wPoll.cmdactive # 0)
    /\ ~wPoll.readFailed => (wResult.needs_input = (wPoll.epCmdActive # 0))

C6_Witness ==
  /\ wPc = "returned"
  /\ wResult.timedOut
  /\ wResult.needs_input
  /\ ~wPoll.readFailed
  /\ wPoll.n >= 2

\* wait_for_idle is in its polling loop, or the collector is in its read loop
InLoop == wPc = "polling" \/ sPc \in {"collect1", "collect2"}

\* C7: with a finite timeout, wait_for_idle and the collector's loop each come
\* to an end, whatever the endpoint does: a wait_for_idle that is polling
\* returns, and a collector that is in its loop leaves it.
C7_LoopsTerminate == InLoop ~> ~InLoop

C7_Witness ==
  /\ sPc = "finish"
  /\ cTimedOut
  /\ ~cAcc.done
  /\ now - cT0 >= cTimeout
  /\ epScripts # <<>>

\* the messages of request req among the lines handed to _handle_msgs, in order
RECURSIVE SeenOf(_, _)
SeenOf(msgs, req) ==
  IF msgs = <<>> THEN <<>>
  ELSE IF Head(msgs).req = req THEN <<Head(msgs)>> \o SeenOf(Tail(msgs), req)
  ELSE SeenOf(Tail(msgs), req)

DoneSeen(req) ==
  \E j \in 1..Len(SeenOf(extract_from_lines(cSeen), req)) :
     SeenOf(extract_from_lines(cSeen), req)[j].ev = "done"

ItemsSeen(req) ==
  {SeenOf(extract_from_lines(cSeen), req)[j].i :
     j \in {k \in 1..Len(SeenOf(extract_from_lines(cSeen), req)) :
              SeenOf(extract_from_lines(cSeen), req)[k].ev = "item_begin"}}

CollectorReturned == sPc \in {"decide", "finish"} /\ ~cAcc.raised

\* C8: the collector returns timed_out = false exactly when it was handed a done
\* event of its request id; it returns timed_out = true only once the timeout
\* has elapsed, and then with the objects of the item events it was handed.
C8_TimedOutIffNoDone ==
  CollectorReturned =>
    /\ cTimedOut = ~DoneSeen(cReq)
    /\ cTimedOut => /\ now - cT0 >= cTimeout
                    /\ {o.i : o \in SeqRange(objects_of(cAcc))} = ItemsSeen(cReq)

C8_Witness ==
  /\ sPc = "finish"
  /\ cReq = Req2
  /\ cTimedOut
  /\ \E j \in 1..Len(extract_from_lines(cSeen)) :
        extract_from_lines(cSeen)[j].req = Req1 /\ extract_from_lines(cSeen)[j].ev = "done"

\* C9: the stored cursor of a registered stream never decreases, whatever
\* start, read_new and read_tail calls are made.
C9_CursorMonotonic ==
  [][\A id \in StreamIds :
       (HasStream(streams, id) /\ HasStream(streams', id)) =>
          GetStream(streams', id).cursor >= GetStream(streams, id).cursor]_vars

\* C10: right after a read_new on a logfile stream whose file exists, the
\* stream's stored cursor is at most the size of the file.
C10_CursorWithinFile ==
  (/\ lastOp.op \in {"get_new_output_since", "send_command"}
   /\ ~lastOp.raised
   /\ HasStream(streams, lastOp.stream_id)
   /\ IsLogfileStream(GetStream(streams, lastOp.stream_id))
   /\ files[GetStream(streams, lastOp.stream_id).logfile_path].exists) =>
     GetStream(streams, lastOp.stream_id).cursor
        <= Len(files[GetStream(streams, lastOp.stream_id).logfile_path].data)

\* read_new was called on a registered logfile stream whose log file exists
ReadOfFile ==
  /\ fnRet.fn = "read_new"
  /\ ~fnRet.r.raised
  /\ HasStream(streams, fnArgs.id)
  /\ IsLogfileStream(GetStream(streams, fnArgs.id))
  /\ files[GetStream(streams, fnArgs.id).logfile_path].exists

FileSizeRead == Len(files[GetStream(streams, fnArgs.id).logfile_path].data)

\* C11 (as stated): the new_cursor read_new returns never exceeds the file
\* size, and read_new called again with the returned cursor, nothing having
\* been appended, returns empty text, the same cursor and truncated = false.
C11_RepeatIsEmpty ==
  /\ ReadOfFile => fnRet.r.new_cursor <= FileSizeRead
  /\ (fnRet.fn = "read_new" /\ fnRet.repeat /\ ~fnRet.r.raised) =>
        /\ fnRet.r.text = <<>>
        /\ fnRet.r.new_cursor = fnRet.prev.new_cursor
        /\ ~fnRet.r.truncated

\* C11 (amended): the new_cursor read_new returns never exceeds the file size;
\* and when a call returned truncated = false, the call repeated with the
\* returned cursor returns empty text, the same cursor and truncated = false.
C11_RepeatAfterFullReadIsEmpty ==
  /\ ReadOfFile => fnRet.r.new_cursor <= FileSizeRead
  /\ (fnRet.fn = "read_new" /\ fnRet.repeat /\ ~fnRet.r.raised /\ ~fnRet.prev.truncated) =>
        /\ fnRet.r.text = <<>>
        /\ fnRet.r.new_cursor = fnRet.prev.new_cursor
        /\ ~fnRet.r.truncated

C11_Witness ==
  /\ ReadOfFile
  /\ fnRet.repeat
  /\ fnRet.prev.text # <<>>
  /\ ~fnRet.prev.truncated
  /\ fnRet.r.new_cursor = FileSizeRead
  /\ FileSizeRead = MaxRead

\* C12: read_new returns truncated = true exactly when bytes of the file remain
\* beyond the new_cursor it returns.
C12_TruncatedIffUnread ==
  ReadOfFile => (fnRet.r.truncated <=> fnRet.r.new_cursor < FileSizeRead)

\* a step of start_logging that registered a logfile stream
StartedLogfile ==
  /\ lastOp'.op = "start_logging"
  /\ Len(streams') = Len(streams) + 1
  /\ streams'[Len(streams')].mode = "logfile"

\* C13: when a logfile stream is started, its cursor stands at the end of the
\* log file's content (with or without reset), so no byte that was in the file
\* at the start is delivered by reads that follow the cursor.
C13_StartSkipsExisting ==
  [][StartedLogfile =>
       LET s == streams'[Len(streams')]
       IN files'[s.logfile_path].exists => s.cursor >= Len(files'[s.logfile_path].data)]_vars

\* C14: whenever a stream is registered, exactly one registered stream is the
\* default; when none is registered there is no default.
C14_OneDefault ==
  /\ Len(streams) > 0 =>
       Cardinality({i \in 1..Len(streams) : streams[i].stream_id = default_stream_id}) = 1
  /\ Len(streams) = 0 => default_stream_id = NoId

\* the default stream was stopped while another stream was registered
C14_Witness ==
  /\ lastOp.op = "stop_logging"
  /\ lastOp.stopped
  /\ lastOp.stream_id = 2
  /\ Len(streams) = 1
  /\ default_stream_id = 1

\* C15: stop_logging of an id that is not registered returns stopped = false
\* and leaves the registered streams, the default stream and the endpoint's
\* logging flag as they were.
C15_StopUnknownChangesNothing ==
  [][(lastOp'.op = "stop_logging" /\ ~HasStream(streams, lastOp'.stream_id)) =>
       /\ ~lastOp'.stopped
       /\ UNCHANGED <<streams, default_stream_id, epLogFileMode>>]_vars

C15_Witness ==
  /\ lastOp.op = "stop_logging"
  /\ ~lastOp.stopped
  /\ ~HasStream(streams, lastOp.stream_id)
  /\ Len(streams) > 0
  /\ epLogFileMode = 1

\* a step of stop_logging that switched the endpoint's logging off
LoggingDisabled ==
  /\ lastOp'.op = "stop_logging"
  /\ epLogFileMode = 1
  /\ epLogFileMode' = 0

\* C16: stop_logging switches the endpoint's logging off only when the stream
\* it stopped was a logfile stream started by the server and no logfile stream
\* is registered any more.
C16_DisableOnlyWithoutLogfileStreams ==
  [][LoggingDisabled =>
       /\ HasStream(streams, lastOp'.stream_id)
       /\ GetStream(streams, lastOp'.stream_id).mode = "logfile"
       /\ GetStream(streams, lastOp'.stream_id).started_by_server
       /\ \A i \in 1..Len(streams') : streams'[i].mode # "logfile"]_vars

\* C17: once selection has returned or raised, the temporary logfile stream it
\* created is no longer registered; and no step of the operation removes a
\* stream other than that temporary one.
C17_TempStreamReleased ==
  [][/\ \A id \in StreamIds :
          (HasStream(streams, id) /\ ~HasStream(streams', id)) => id = sTemp
     /\ (sPc' = "done" /\ sTemp' # NoId) => ~HasStream(streams', sTemp')]_vars

\* the lines of the text of the call, and those that hold the tag
LinesOfCall == splitlines(fnArgs.text)
TaggedOfCall == {i \in 1..Len(LinesOfCall) : \E j \in 1..Len(LinesOfCall[i]) :
                                                 LinesOfCall[i][j].k \in {"h", "g"}}
LastTaggedOfCall == CHOOSE i \in TaggedOfCall : \A i2 \in TaggedOfCall : i2 <= i
PayloadOfCall(i) == payload_of(LinesOfCall[i], rfind_marker(LinesOfCall[i]))

\* C18: on a text with tagged lines _extract_mcp_json gives what it gives on
\* the last tagged line alone, and when that line's payload parses to an object
\* it returns this object; the earlier tagged lines have no influence.
C18_LastTaggedLineDecides ==
  (fnRet.fn = "_extract_mcp_json" /\ TaggedOfCall # {}) =>
     /\ fnRet.r = extract_mcp_json(LinesOfCall[LastTaggedOfCall])
     /\ json_loads(PayloadOfCall(LastTaggedOfCall)).kind = "object" =>
          fnRet.r = Extracted(json_loads(PayloadOfCall(LastTaggedOfCall)).m)

C18_Witness ==
  /\ fnRet.fn = "_extract_mcp_json"
  /\ Cardinality(TaggedOfCall) = 2
  /\ \E i \in TaggedOfCall : json_loads(PayloadOfCall(i)) = [kind |-> "object", m |-> Obj1]
  /\ fnRet.r = Extracted(Obj2)

\* the four errors of the payload cases, given the error for a text without
\* tagged lines
PayloadErrors ==
  /\ (/\ TaggedOfCall # {}
      /\ PayloadOfCall(LastTaggedOfCall) = <<>>) =>
        fnRet.r = ExtractError("MCP JSON marker present but payload is empty")
  /\ (/\ TaggedOfCall # {}
      /\ PayloadOfCall(LastTaggedOfCall) # <<>>
      /\ json_loads(PayloadOfCall(LastTaggedOfCall)).kind = "raise") =>
        fnRet.r = ExtractError("Failed to parse MCP JSON payload")
  /\ (/\ TaggedOfCall # {}
      /\ PayloadOfCall(LastTaggedOfCall) # <<>>
      /\ json_loads(PayloadOfCall(LastTaggedOfCall)).kind = "value") =>
        fnRet.r = ExtractError("MCP JSON payload is not an object")

GoodOfCall ==
  {i \in TaggedOfCall : /\ PayloadOfCall(i) # <<>>
                         /\ json_loads(PayloadOfCall(i)).kind = "object"}

\* C20: _extract_mcp_json_messages never raises and returns, in the order of
\* their lines, exactly the objects of the tagged lines whose payload parses to
\* an object.
C20_StreamKeepsObjectsInOrder ==
  fnRet.fn = "_extract_mcp_json_messages" =>
     /\ ~fnRet.r.raised
     /\ Len(fnRet.r.out) = Cardinality(GoodOfCall)
     /\ \A j \in 1..Len(fnRet.r.out) :
          LET i == CHOOSE i \in GoodOfCall : Cardinality({i2 \in GoodOfCall : i2 < i}) = j - 1
          IN fnRet.r.out[j] = json_loads(PayloadOfCall(i)).m

\* two objects returned in order
C20_Witness ==
  /\ fnRet.fn = "_extract_mcp_json_messages"
  /\ fnRet.r.out = <<Obj1, Obj2>>

\* the messages of the call that carry the collected request id
OwnMsg(m) == m.req = fnArgs.req_id
OwnOfCall == SelectSeq(fnArgs.msgs, OwnMsg)
Collected == fnRet.fn = "_collect_selection_stream_lite"

SingleShotErrorRaises ==
  fnRet.fn = "_run_lisp_json" =>
    LET r1 == extract_mcp_json(text_of(fnArgs.msgs))
        r  == IF r1.raised THEN extract_mcp_json(text_of(fnArgs.tail)) ELSE r1
    IN (~r.raised /\ ~r.obj.ok) => (fnRet.r.raised /\ fnRet.r.cause = r.obj)

\* C22 (as stated): every extracted object with ok = false makes the operation
\* raise an error that carries the object's error, in scripted calls and in
\* stream collection.
C22_EveryErrorObjectRaises ==
  /\ SingleShotErrorRaises
  /\ Collected =>
       \A j \in 1..Len(fnArgs.msgs) :
          ~fnArgs.msgs[j].ok => (fnRet.r.raised /\ ~fnRet.r.cause.ok)

\* C22 (amended): in stream collection this holds for the objects of the
\* collected request id that come before the request's done and before
\* another error of the request; the error carried is that of the first such
\* object.
C22_OwnErrorObjectRaises ==
  /\ SingleShotErrorRaises
  /\ Collected =>
       \A j \in 1..Len(OwnOfCall) :
          (/\ ~OwnOfCall[j].ok
           /\ \A j2 \in 1..(j - 1) : OwnOfCall[j2].ok /\ OwnOfCall[j2].ev # "done") =>
             (fnRet.r.raised /\ fnRet.r.cause = OwnOfCall[j])

C22_Witness ==
  /\ Collected
  /\ Len(fnArgs.msgs) = 3
  /\ fnArgs.msgs[1].req = Req1 /\ fnArgs.msgs[1].ev = "start"
  /\ fnArgs.msgs[2].req = Req1 /\ fnArgs.msgs[2].ev = "item_begin" /\ fnArgs.msgs[2].ok
  /\ ~fnArgs.msgs[3].ok /\ fnArgs.msgs[3].req = Req1
  /\ fnRet.r.raised

\* the events the emitter wrote, and the count it has to announce
EmittedOfCall == extract_mcp_json_messages(fnRet.r)
CappedOfCall ==
  IF fnArgs.mo > 0 /\ fnArgs.total > fnArgs.mo THEN fnArgs.mo ELSE fnArgs.total

\* C23: the emitter writes one start event with count n, then n item_begin
\* events with the indices 0..n-1 in ascending order, then one done event, all
\* of the request id, n being the selection size capped at max_objects when
\* max_objects is positive.
C23_StartItemsDone ==
  fnRet.fn = "emit" =>
    LET ms == EmittedOfCall
        n  == CappedOfCall
    IN /\ Len(ms) = n + 2
       /\ \A j \in 1..Len(ms) : ms[j].req = fnArgs.req_id /\ ms[j].ok
       /\ ms[1].ev = "start" /\ ms[1].count = n
       /\ \A j \in 1..n : ms[j + 1].ev = "item_begin" /\ ms[j + 1].i = j - 1
       /\ ms[n + 2].ev = "done"

\* a selection larger than a positive max_objects
C23_Witness ==
  /\ fnRet.fn = "emit"
  /\ fnArgs.total = MaxEmit
  /\ fnArgs.mo = 2
  /\ Len(EmittedOfCall) = 4

\* the item_begin events _handle_msgs takes: those of the request id before
\* its done
ReceivedItems ==
  {j \in 1..Len(OwnOfCall) :
     /\ OwnOfCall[j].ev = "item_begin"
     /\ \A j2 \in 1..(j - 1) : OwnOfCall[j2].ev # "done"}

\* C24: the objects of a collection result are in ascending order of index,
\* one entry for each distinct index received for the request id.
C24_ObjectsSortedByIndex ==
  (Collected /\ ~fnRet.r.raised) =>
    LET objs == fnRet.r.out.objects
    IN /\ \A j \in 1..(Len(objs) - 1) : objs[j].i < objs[j + 1].i
       /\ {objs[j].i : j \in 1..Len(objs)} = {OwnOfCall[j].i : j \in ReceivedItems}
       /\ \A j \in 1..Len(objs) :
            \E k \in ReceivedItems : OwnOfCall[k].i = objs[j].i /\ OwnOfCall[k].h = objs[j].handle

\* index 1 arrived before index 0, and index 1 twice
C24_Witness ==
  /\ Collected
  /\ Len(fnArgs.msgs) = 4
  /\ fnArgs.msgs[1].req = Req1 /\ fnArgs.msgs[1].ev = "item_begin" /\ fnArgs.msgs[1].i = 1
  /\ fnArgs.msgs[2].req = Req1 /\ fnArgs.msgs[2].ev = "item_begin" /\ fnArgs.msgs[2].i = 0
  /\ fnArgs.msgs[3].req = Req1 /\ fnArgs.msgs[3].ev = "item_begin" /\ fnArgs.msgs[3].i = 1
  /\ ~fnRet.r.raised
  /\ Len(fnRet.r.out.objects) = 2

SentOfCall == fnRet.cmd
SubmittedOfCall == fnArgs.command
StartsBlank(text) == text # <<>> /\ text[1] = NL
EndsInNewline(text) == text # <<>> /\ text[Len(text)] = NL

\* exactly one newline is appended to a text that does not end in one, and a
\* text that ends in a newline is sent as it is
OneNewlineAppended ==
  /\ EndsInNewline(SubmittedOfCall) => SentOfCall = SubmittedOfCall
  /\ ~EndsInNewline(SubmittedOfCall)
       => /\ Len(SentOfCall) = Len(SubmittedOfCall) + 1
          /\ SubSeq(SentOfCall, 1, Len(SubmittedOfCall)) = SubmittedOfCall
          /\ SentOfCall[Len(SentOfCall)] = NL

\* C30 as stated: the text passed to the endpoint's send call is the submitted
\* text with exactly one newline appended when it does not end in a newline and
\* the submitted text unchanged otherwise; the sent text starts with a blank
\* line only if the submitted text does.
C30_BlankLineOnlyIfSubmitted ==
  fnArgs.fn = "bridge.send_command"
    => /\ OneNewlineAppended
       /\ StartsBlank(SentOfCall) => StartsBlank(SubmittedOfCall)

\* C30: the same with the leading blank line stated for a submitted text that
\* is not empty; the empty text is sent as one newline.
C30_OneNewlineAppended ==
  fnArgs.fn = "bridge.send_command"
    => /\ OneNewlineAppended
       /\ SubmittedOfCall # <<>>
            => (StartsBlank(SentOfCall) => StartsBlank(SubmittedOfCall))
       /\ SubmittedOfCall = <<>> => SentOfCall = <<NL>>

C30_Witness ==
  /\ fnArgs.fn = "bridge.send_command"
  /\ SubmittedOfCall = <<Byte("x"), NL, Byte("x")>>
  /\ SentOfCall = <<Byte("x"), NL, Byte("x"), NL>>

\* C40: a failed read of the command-active counter during wait_for_idle counts
\* as a command being active: that poll never yields completed = true, and a
\* timeout on that poll reports needs_input = true.
C40_FailedReadIsActive ==
  (wPoll.n > 0 /\ wPoll.readFailed) =>
    /\ ~wResult.completed
    /\ wPoll.cmdactive # 0
    /\ wPc = "returned" => (wResult.timedOut /\ wResult.needs_input)

C40_Witness ==
  /\ wPc = "returned"
  /\ wPoll.readFailed /\ ~wPoll.stateFailed
  /\ wPoll.epQuiescent /\ wPoll.epCmdActive = 0
  /\ wResult.timedOut /\ wResult.needs_input /\ wResult.quiescent

====
